---- MODULE Spec2Model ----
(***************************************************************************)
(* Model of scripts/dr_visibilities.py: the capture ring, the producer     *)
(* (CaptureOp / DummyOp), the command thread, the recording queue and the  *)
(* per-gulp protocol of WriterOp.main.                                     *)
(*                                                                         *)
(* FileOperationsQueue and the file operations live in                     *)
(* ovro_data_recorder.operations, which is not part of the sources at      *)
(* hand; the queue operators below follow the written description of the   *)
(* queue (activation window, lag, clean, previous).                        *)
(***************************************************************************)
EXTENDS Integers, Sequences, FiniteSets, TLC

\* ---------------------------------------------------------------- bounds
MaxTime == 2
\* wall clock runs over 0..MaxTime
MaxOps == 2
\* number of recording operations the command thread may enqueue
MaxDur == 1
\* longest recording window, in clock ticks
RingCap == 2
\* spans the ring holds before the producer blocks (guarantee=True)
MaxSeqs == 2
\* sequences the producer may begin
MaxFailRun == 1
\* longest run of failing writes explored together with the schedule
MaxErrors == 101
\* longest run of failing writes explored in the write-error scenarios

MaxGulps == 3
\* gulps the capture commits in the fill-level scenarios
MaxIdle == 2
\* receives that return without a gulp in the fill-level scenarios
MaxBytes == 2
\* largest value of the capture's byte counters
MaxNavg == 2
\* largest header navg, in samples
MaxNtime == 2
\* largest --gulp-size
MaxHdr == 1
MaxMtime == 3
MaxHalf == 5
\* largest header time_tag

\* largest number of stands (MaxNstand), seconds of wall time StatisticsOp
\* is followed for (MaxWallSpan),
\* largest weeks, days, hours and minutes of a quota text 'Nw Nd H:M',
\* largest bare number of minutes, longest arbitrary quota text
MaxNstand == 10
MaxWallSpan == 125
MaxW == 1
MaxD == 2
MaxH == 3
MaxM == 30
MaxBare == 131
MaxText == 4

\* ------------------------------------------------------ program constants
ReassertEvery == 50

FillMax == 1000

\* seconds between two sets of statistics monitor points
SaveEvery == 60

\* significant bits of a Python float
Mantissa == 53

NoOp == 0
OpIds == 1..MaxOps

\* the consumer stages main() may put on the capture ring
Stages == {"SpectraOp", "BaselineOp", "ImageOp", "StatisticsOp", "WriterOp"}
Monitors == Stages \ {"WriterOp"}

VARIABLES
    now,                  \* wall clock (datetime.utcnow)
    lag,                  \* QUEUE.lag
    queue,                \* QUEUE: sequence of op ids ordered by start time
    previous,             \* QUEUE.previous
    opWin,                \* op id -> <<start_utc, stop_utc>>
    cancelled,            \* op id -> cancelled by the command thread
    is_started,           \* op id -> FileOperation.is_started
    nextId,               \* next op id the command thread hands out
    ring,                 \* capture ring: committed spans some reader has not read
    rpos,                 \* reader -> entries of ring it has read
    readers,              \* the stages reading the ring
    ringClosed,           \* producer has ended writing
    seqOpen,              \* producer is inside a sequence
    seqCount,             \* sequences begun by the producer
    shutdown_event,       \* the shared threading.Event
    ppc,                  \* producer position
    spc,                  \* monitoring stage -> position
    wpc,                  \* writer position
    time_tag,             \* writer: sample time of the gulp at hand, in ticks
    first_gulp,
    was_active,
    active_op,            \* writer: result of its evaluation of QUEUE.active
    write_error_asserted,
    write_error_counter,
    nerror,               \* err_proclog 'nerror'
    startCalled,          \* history: op id -> op.start has been called
    stopCalled,           \* history: op id -> op.stop has been called
    writeCalled,          \* history: op id -> op.write has been called
    lastActive,           \* history: the op of the last gulp with an active op
    failedInSeq,          \* history: a write raised in this sequence and none
                          \* has returned since
    assertedInRun,        \* history: 'asserted' logs since the last good write
                          \* (counted up to 2)
    ev,                   \* history: what the writer did in its last step
    FILL_QUEUE,           \* the fill-level queue (queue.Queue(maxsize=1000))
    fill_level,           \* writer: the fill level of the gulp at hand
    good,                 \* capture: byte counters at the previous reading
    missing,
    rx_good,              \* the capture's exported counters (stats file)
    rx_missing,
    last_status,          \* capture: status of the last recv
    navg,                 \* header field navg
    ntime_gulp,           \* --gulp-size
    ihdr,                 \* stage -> header time_tag of its sequence
    tt,                   \* stage -> its local time_tag (sample units)
    ngulp,                \* history: stage -> full gulps taken in its sequence
    ncapture,             \* history: gulps committed by the capture's recv
    nidle,                \* history: recvs that returned without a gulp
    sev,                  \* history: stage -> what it did with its last span
    recvAfterError,       \* history: recv was called after a hard error
    calMtime,             \* mtime of the calibration directory
    calFiles,             \* first frequency of a .bcal table -> its content
    all_cals,             \* ImageOp._all_cals: key -> loaded table
    cal,                  \* ImageOp._cal: the cached product
    caltag,               \* ImageOp._caltag
    last_cal_update,      \* ImageOp._last_cal_update
    calResult,            \* what the last _load_calibration call gave
    im,                   \* the image the imager made on its last cadence
    quotaIn,              \* the text given to --record-directory-quota
    quotaOut,             \* what quota_size made of it
    mpc,                  \* main(): where the main thread stands
    exitStatus,           \* how the process ended
    hdrIn,                \* what a producer makes its sequence header from
    ohdr,                 \* the sequence header it made
    wall,                 \* time.time() as StatisticsOp reads it (seconds)
    last_save,            \* StatisticsOp.main: last_save
    prevEmit,             \* history: when this sequence's last emission began
    statEv,               \* history: what StatisticsOp did with its last span
    latest_frequency,     \* the writer's monitor point latest_frequency
    autos                 \* a stage's list of auto-correlation indices

vars == <<now, lag, queue, previous, opWin, cancelled, is_started, nextId,
          ring, rpos, readers, ringClosed, seqOpen, seqCount, shutdown_event,
          ppc, spc, wpc, time_tag, first_gulp, was_active, active_op,
          write_error_asserted, write_error_counter, nerror,
          startCalled, stopCalled, writeCalled, lastActive,
          failedInSeq, assertedInRun, ev,
          FILL_QUEUE, fill_level, good, missing, rx_good, rx_missing,
          last_status, navg, ntime_gulp, ihdr, tt, ngulp, ncapture, nidle,
          sev, recvAfterError, calMtime, calFiles, all_cals, cal, caltag,
          last_cal_update, calResult, im, quotaIn, quotaOut,
          mpc, exitStatus, hdrIn, ohdr, wall, last_save, prevEmit,
          statEv, latest_frequency, autos>>

\* the state of the fill-level channel, of the capture's counters and of the
\* stages' time tags
fillVars == <<FILL_QUEUE, fill_level>>
captureVars == <<good, missing, rx_good, rx_missing, last_status, ncapture,
                 nidle, recvAfterError>>
tagVars == <<navg, ntime_gulp, ihdr, tt, ngulp>>
calVars == <<calMtime, calFiles, all_cals, cal, caltag, last_cal_update,
             calResult, im>>
quotaVars == <<quotaIn, quotaOut>>
mainVars == <<mpc, exitStatus>>
hdrVars == <<hdrIn, ohdr, autos>>
statVars == <<wall, last_save, prevEmit, statEv>>
pubVars == <<latest_frequency>>
extVars == <<quotaVars, mainVars, hdrVars, statVars, pubVars>>
auxVars == <<fillVars, captureVars, tagVars, sev, calVars, extVars>>

queueVars == <<queue, previous, opWin, cancelled, nextId>>
ringVars == <<ring, rpos, readers, ringClosed, seqOpen, seqCount, ppc>>
writerVars == <<wpc, time_tag, first_gulp, was_active, active_op>>
errVars == <<write_error_asserted, write_error_counter, nerror, failedInSeq,
            assertedInRun>>
histVars == <<startCalled, stopCalled, writeCalled, lastActive>>

\* ------------------------------------------------------------- helpers
Range(s) == {s[i] : i \in DOMAIN s}

Min(S) == CHOOSE x \in S : \A y \in S : x <= y

\* kind: the step; op: the op QUEUE.active returned; start / write: outcome
\* of op.start / op.write; startOn / wrote / stop: the op that call went to;
\* cleanOk: QUEUE.clean returned; wasQueued: the op last active was still
\* queued when clean was called; logs: the messages logged; fill: the fill
\* level popped (poll) or passed to op.write (write)
\* a fill level is a ratio num / den for the gulp it was computed after;
\* den = 0 stands for no value
Unset == [gulp |-> 0, num |-> 0, den |-> 0]

NoEvent == [kind |-> "none", op |-> NoOp, start |-> "none", startOn |-> NoOp,
            write |-> "none", wrote |-> NoOp, cleanOk |-> FALSE,
            stop |-> NoOp, wasQueued |-> FALSE, logs |-> {}, fill |-> Unset]

\* ------------------------------------------------- recording queue (queue)
Covers(o, t) == opWin[o][1] <= t /\ t < opWin[o][2]

\* an op is finished once cancelled or once its window has passed
FinishedAt(o, t) == cancelled[o] \/ opWin[o][2] <= t

ActiveAtTime(o, t) == Covers(o, t) /\ ~FinishedAt(o, t)

\* QUEUE.active at sample time t: the first op whose window covers t
ActiveAt(t) ==
    IF \E i \in DOMAIN queue : ActiveAtTime(queue[i], t)
    THEN queue[CHOOSE i \in DOMAIN queue :
                  /\ ActiveAtTime(queue[i], t)
                  /\ \A j \in DOMAIN queue : ActiveAtTime(queue[j], t) => i <= j]
    ELSE NoOp

\* the sample time the queue compares windows against: now - lag
QueueNow == now - lag

QueueActive == ActiveAt(QueueNow)

Overlaps(s, e) == \E o \in Range(queue) : s < opWin[o][2] /\ opWin[o][1] < e

\* position after which a window starting at s is inserted (start order)
InsertAt(s) == Cardinality({i \in DOMAIN queue : opWin[queue[i]][1] <= s})

Inserted(o, s) ==
    SubSeq(queue, 1, InsertAt(s)) \o <<o>> \o SubSeq(queue, InsertAt(s) + 1, Len(queue))

\* QUEUE.clean: the queue without its finished ops
Cleaned == SelectSeq(queue, LAMBDA o : ~FinishedAt(o, QueueNow))

\* QUEUE.previous after clean: the last finished op dropped, else unchanged
Promoted ==
    IF \E i \in DOMAIN queue : FinishedAt(queue[i], QueueNow)
    THEN queue[CHOOSE i \in DOMAIN queue :
                  /\ FinishedAt(queue[i], QueueNow)
                  /\ \A j \in DOMAIN queue : FinishedAt(queue[j], QueueNow) => j <= i]
    ELSE previous

\* ------------------------------------------------------------ capture ring
Hdr == "hdr"
Gulp == "gulp"
Short == "short"

\* reader r has an unread entry
RingHas(r) == rpos[r] < Len(ring)

RingHead(r) == ring[rpos[r] + 1]

\* variant: reading without guarantee, a span is released once the reader
\* that is furthest ahead has read it
TrimRing_Unguaranteed(att, pos) ==
    LET m == IF att = {} THEN Len(ring) ELSE CHOOSE x \in {pos[r] : r \in att} :
                  \A r \in att : pos[r] <= x
    IN [ring |-> SubSeq(ring, m + 1, Len(ring)),
        rpos |-> [r \in Stages |->
                    IF r \in att /\ pos[r] > m THEN pos[r] - m ELSE 0]]

\* the ring and the read positions once every reader in att has read pos[r]
\* entries: what all of them have read is released
TrimRing(att, pos) ==
    LET m == IF att = {} THEN Len(ring) ELSE Min({pos[r] : r \in att})
    IN [ring |-> SubSeq(ring, m + 1, Len(ring)),
        rpos |-> [r \in Stages |-> IF r \in att THEN pos[r] - m ELSE 0]]

\* reader r releases the span it holds
RingRead(r) == TrimRing(readers, [rpos EXCEPT ![r] = @ + 1])

\* the spans committed to the ring that reader r has not read yet
Unread(r) == SubSeq(ring, rpos[r] + 1, Len(ring))

\* reader r leaves the ring (its main returned or died)
RingDetach(r) == TrimRing(readers \ {r}, rpos)

\* the producer commits entries; with no reader left they are not kept
RingPut(entries) == IF readers = {} THEN ring ELSE ring \o entries

\* ring.read() is exhausted for reader r: writing has ended and r has read
\* everything
ReadEnded(r) == ringClosed /\ ~RingHas(r)

\* variant: the stage also leaves as soon as the shutdown event is set
StageLeaves_OnEvent(r) == ReadEnded(r) \/ shutdown_event

\* variant: a stage never sees its read end
StageLeaves_Never(r) == FALSE

\* a consumer stage leaves its loops when ring.read() is exhausted
StageLeaves(r) == ReadEnded(r)

\* ------------------------------------------------------ fill-level queue
\* the writer's value when the queue is empty: -1.0
NoFill == [gulp |-> 0, num |-> -1, den |-> 1]

\* variant: an empty queue is waited on, nothing is handed on
FillGet_Blocks ==
    [level |-> IF FILL_QUEUE = <<>> THEN Unset ELSE Head(FILL_QUEUE),
     queue |-> IF FILL_QUEUE = <<>> THEN FILL_QUEUE ELSE Tail(FILL_QUEUE),
     logs |-> {}]

\* FILL_QUEUE.get_nowait() in the writer, with its except queue.Empty
FillGet ==
    IF FILL_QUEUE = <<>>
    THEN [level |-> NoFill, queue |-> FILL_QUEUE, logs |-> {"nofill"}]
    ELSE [level |-> Head(FILL_QUEUE), queue |-> Tail(FILL_QUEUE), logs |-> {}]

\* variant: the size test is missing, a short span counts as a gulp
FullGulp_OrShort(r) == RingHead(r) \in {Gulp, Short}

\* the span at the head of reader r is a full gulp:
\* not ispan.size < igulp_size
FullGulp(r) == RingHead(r) = Gulp

\* the number, in the capture's count, of the gulp the writer holds: the
\* writer reads every committed gulp in order, so it is the count of gulps
\* committed less those still behind its span in the ring
WriterGulpNo ==
    ncapture - Cardinality({i \in (rpos["WriterOp"] + 2)..Len(ring) :
                              ring[i] = Gulp})

\* --------------------------------------------- ImageOp calibration cache
\* frequencies are counted in half Hz, so that the rounding has ties
CalHalves == 2..MaxHalf

\* int(round(x)) of Python 3 for x = h / 2: ties go to the even integer
Round(h) ==
    LET q == h \div 2
    IN IF h % 2 = 0 THEN q ELSE IF q % 2 = 0 THEN q ELSE q + 1

CalKeys == {Round(h) : h \in CalHalves}

\* a loaded table: the first frequency of its file and the content (the
\* mtime it was written at); NoTable: no entry under the key
NoTable == [h |-> 0, gen |-> 0]

CalUnset == [kind |-> "unset", key |-> -1, h |-> 0, gen |-> 0]
CalZeros == [kind |-> "zeros", key |-> -1, h |-> 0, gen |-> 0]

\* freq: first frequency of the data the call was made for; seen: the mtime
\* the call read; kind: "product", "zeros", or "raised" (the caller's None)
\* reloaded: the call logged "Reloading calibration tables"
NoResult == [kind |-> "none", freq |-> 0, key |-> -1, h |-> 0, gen |-> 0,
             seen |-> 0, reloaded |-> FALSE]

NoImage == [tag |-> "none", applied |-> "none", warned |-> FALSE]

\* variant: the exception of _load_calibration leaves the cadence, no image
ImageOf_NoCatch(res) ==
    IF res.kind = "raised" THEN NoImage
    ELSE [tag |-> "Cal", applied |-> res.kind, warned |-> FALSE]

\* the rest of the cadence: an exception of _load_calibration is logged as a
\* warning and cal is None; the data are multiplied by cal unless it is
\* None, and the image is labelled with has_cal = (cal is not None)
ImageOf(res) ==
    IF res.kind = "raised"
    THEN [tag |-> "Uncal", applied |-> "none", warned |-> TRUE]
    ELSE [tag |-> "Cal", applied |-> res.kind, warned |-> FALSE]

\* the tables in the directory under key k
TablesFor(k) == {h \in CalHalves : calFiles[h] # 0 /\ Round(h) = k}

\* _all_cals after every file was loaded: tables of one key replace each
\* other in glob order, which is arbitrary
LoadedTables ==
    {t \in [CalKeys -> {NoTable} \cup {[h |-> h, gen |-> calFiles[h]] :
                                          h \in CalHalves}] :
       \A k \in CalKeys :
          IF TablesFor(k) = {} THEN t[k] = NoTable
          ELSE t[k].h \in TablesFor(k)}

\* variant: every call reloads
NeedsReload_Always == TRUE

\* last_update > self._last_cal_update
NeedsReload == calMtime > last_cal_update

\* variant: a reload keeps the cached product and its tag
CacheAfterReload_Kept == [cal |-> cal, tag |-> caltag]

\* del self._cal; self._caltag = -1
CacheAfterReload == [cal |-> CalUnset, tag |-> -1]

\* ------------------------------------------------------------ quota_size
\* a text is a sequence of characters; these are the characters of the
\* quota texts
DigitChars == <<"0", "1", "2", "3", "4", "5", "6", "7", "8", "9">>
IsDigit(c) == \E i \in DOMAIN DigitChars : DigitChars[i] = c
DigitVal(c) == (CHOOSE i \in DOMAIN DigitChars : DigitChars[i] = c) - 1
QuotaChars == {"1", "x", "w", "d", ":", " "}

\* str.strip(): the text without its leading and trailing blanks
Strip(s) ==
    IF \A i \in DOMAIN s : s[i] = " " THEN <<>>
    ELSE LET a == CHOOSE i \in DOMAIN s :
                    s[i] # " " /\ \A j \in 1..(i - 1) : s[j] = " "
             b == CHOOSE i \in DOMAIN s :
                    s[i] # " " /\ \A j \in (i + 1)..Len(s) : s[j] = " "
         IN SubSeq(s, a, b)

\* int(s) succeeds: blanks around a non-empty run of digits
IsInt(s) == Strip(s) # <<>> /\ \A i \in DOMAIN Strip(s) : IsDigit(Strip(s)[i])

RECURSIVE DigitsVal(_)
DigitsVal(t) ==
    IF t = <<>> THEN 0
    ELSE 10 * DigitsVal(SubSeq(t, 1, Len(t) - 1)) + DigitVal(t[Len(t)])

\* int(s) where it succeeds
IntOf(s) == DigitsVal(Strip(s))

\* '%d' % n for n >= 0
RECURSIVE Digits(_)
Digits(n) ==
    IF n < 10 THEN <<DigitChars[n + 1]>>
    ELSE Digits(n \div 10) \o <<DigitChars[(n % 10) + 1]>>

\* value.split(sep, 1): where sep first stands in s, 0 if it does not
SepAt(s, sep) ==
    IF \E i \in DOMAIN s : s[i] = sep
    THEN CHOOSE i \in DOMAIN s : s[i] = sep /\ \A j \in 1..(i - 1) : s[j] # sep
    ELSE 0

\* one try block of quota_size. Without sep the unpacking raises and nothing
\* is assigned; with it the component and value are both assigned before
\* int() is tried, so a component that is no integer stays a text and value
\* is left unstripped
QuotaPart(value, sep) ==
    LET at == SepAt(value, sep)
        head == SubSeq(value, 1, at - 1)
        rest == SubSeq(value, at + 1, Len(value))
    IN IF at = 0
       THEN [found |-> FALSE, text |-> FALSE, n |-> 0, value |-> value]
       ELSE IF IsInt(head)
       THEN [found |-> TRUE, text |-> FALSE, n |-> IntOf(head),
             value |-> Strip(rest)]
       ELSE [found |-> FALSE, text |-> TRUE, n |-> 0, value |-> rest]

\* ---- binary64 arithmetic of the last two lines of quota_size: a double
\* x >= 0 is [int, frac], frac the bits after the binary point
BitLen(n) == CHOOSE k \in 0..30 : n < 2^k /\ (k = 0 \/ 2^(k - 1) <= n)

\* the n bits of v, most significant first
BitsOf(v, n) == [i \in 1..n |-> (v \div 2^(n - i)) % 2]

\* the number whose bits are F[a+1..a+8], bits past the end being 0
ByteOf(F, a) ==
    LET B(i) == IF a + i <= Len(F) THEN F[a + i] * 2^(8 - i) ELSE 0
    IN B(1) + B(2) + B(3) + B(4) + B(5) + B(6) + B(7) + B(8)

\* the first 8*n bits of r/q (r < q), and the remainder left after them
RECURSIVE FracBits(_, _, _)
FracBits(r, q, n) ==
    IF n = 0 THEN [bits |-> <<>>, rem |-> r]
    ELSE LET rest == FracBits((r * 256) % q, q, n - 1)
         IN [bits |-> BitsOf((r * 256) \div q, 8) \o rest.bits,
             rem |-> rest.rem]

LeadingZeros(F) ==
    IF \E i \in DOMAIN F : F[i] = 1
    THEN (CHOOSE i \in DOMAIN F : F[i] = 1 /\ \A j \in 1..(i - 1) : F[j] = 0) - 1
    ELSE Len(F)

\* one unit in the last place more
Incr(I, kept) ==
    IF \E j \in DOMAIN kept : kept[j] = 0
    THEN LET j == CHOOSE j \in DOMAIN kept :
                    kept[j] = 0 /\ \A i \in (j + 1)..Len(kept) : kept[i] = 1
         IN [int |-> I,
             frac |-> [i \in DOMAIN kept |->
                         IF i < j THEN kept[i] ELSE IF i = j THEN 1 ELSE 0]]
    ELSE [int |-> I + 1, frac |-> [i \in DOMAIN kept |-> 0]]

\* round to nearest, ties to even, at Mantissa significant bits; sticky:
\* there is more of the exact value below the bits of F
RoundDouble(I, F, sticky) ==
    LET k == IF I > 0 THEN Mantissa - BitLen(I) ELSE LeadingZeros(F) + Mantissa
    IN IF Len(F) <= k THEN [int |-> I, frac |-> F]
       ELSE LET kept == SubSeq(F, 1, k)
                st == sticky \/ \E j \in (k + 2)..Len(F) : F[j] = 1
                lsb == IF k > 0 THEN F[k] ELSE I % 2
            IN IF F[k + 1] = 1 /\ (st \/ lsb = 1) THEN Incr(I, kept)
               ELSE [int |-> I, frac |-> kept]

\* byte j of F and the bytes after it, times c: the bits and the carry out
RECURSIVE MulFrom(_, _, _)
MulFrom(F, c, j) ==
    IF j * 8 >= Len(F) THEN [bits |-> <<>>, carry |-> 0]
    ELSE LET low == MulFrom(F, c, j + 1)
             v == ByteOf(F, j * 8) * c + low.carry
         IN [bits |-> BitsOf(v % 256, 8) \o low.bits, carry |-> v \div 256]

\* m / 60.0 (64 bits of the quotient are enough to round it)
FloatDiv(m, q) ==
    LET f == FracBits(m % q, q, 8)
    IN RoundDouble(m \div q, f.bits, f.rem # 0)

\* n + x, n an integer
FloatAdd(n, x) == RoundDouble(n + x.int, x.frac, FALSE)

\* x * c, c an integer
FloatMul(x, c) ==
    LET p == MulFrom(x.frac, c, 0)
    IN RoundDouble(x.int * c + p.carry, p.bits, FALSE)

\* int((7*24*w + 24*d + h + m/60.0) * 3600)
Seconds(w, d, h, m) ==
    FloatMul(FloatAdd(7 * 24 * w + 24 * d + h, FloatDiv(m, 60)), 3600).int

NoQuota == [kind |-> "none", seconds |-> 0, wfound |-> FALSE,
            dfound |-> FALSE, hfound |-> FALSE, mfound |-> FALSE,
            rest |-> <<>>]

\* quota_size(value). A component left as a text makes the sum raise a
\* TypeError (the sum always has the float m/60.0 in it)
quota_size(value) ==
    LET w == QuotaPart(value, "w")
        d == QuotaPart(w.value, "d")
        h == QuotaPart(d.value, ":")
        mfound == IsInt(h.value)
        m == IF mfound THEN IntOf(h.value) ELSE 0
        out == [NoQuota EXCEPT !.wfound = w.found, !.dfound = d.found,
                               !.hfound = h.found, !.mfound = mfound,
                               !.rest = h.value]
    IN IF ~(w.found \/ d.found \/ h.found \/ mfound)
       THEN [out EXCEPT !.kind = "ValueError"]
       ELSE IF w.text \/ d.text \/ h.text
       THEN [out EXCEPT !.kind = "TypeError"]
       ELSE [out EXCEPT !.kind = "ok",
                        !.seconds = Seconds(w.n, d.n, h.n, m)]

\* the text 'Nw Nd H:M'
QuotaText(w, d, h, m) ==
    Digits(w) \o <<"w", " ">> \o Digits(d) \o <<"d", " ">> \o Digits(h)
      \o <<":">> \o Digits(m)

\* the texts tried: the full form, bare minutes, and any short text
QuotaForms ==
    {QuotaText(w, d, h, m) : w \in 0..MaxW, d \in 0..MaxD, h \in 0..MaxH,
                             m \in 0..MaxM}
QuotaBare == {Digits(m) : m \in 0..MaxBare}
QuotaShort == UNION {[1..n -> QuotaChars] : n \in 0..MaxText}
QuotaInputs == QuotaForms \cup QuotaBare \cup QuotaShort

\* ------------------------------------------------ the sequence header
\* int(numpy.sqrt(x)): the integer part of the square root. numpy.sqrt is
\* correctly rounded, and for x < 2^31 the root of a non-square is further
\* from the next integer than a double's precision, so the integer part is
\* exact
IntSqrt(x) == CHOOSE r \in 0..x : r * r <= x /\ x < (r + 1) * (r + 1)

\* a variant: the + 1 under the root is left out
NstandOf_NoPlusOne(nsrc) == (IntSqrt(8 * nsrc) - 1) \div 2

\* int(numpy.sqrt(8*nsrc+1)-1)//2
NstandOf(nsrc) == (IntSqrt(8 * nsrc + 1) - 1) \div 2

\* the baselines of n stands, autocorrelations included
Baselines(n) == (n * (n + 1)) \div 2

NoArgs == [producer |-> "none", seq0 |-> 0, time_tag |-> 0, chan0 |-> 0,
           nchan |-> 0, navg |-> 0, nsrc |-> 0, fast |-> FALSE]

NoHdr == [time_tag |-> 0, seq0 |-> 0, chan0 |-> 0, cfreq |-> 0, nchan |-> 0,
          bw |-> 0, navg |-> 0, nstand |-> 0, npol |-> 0, nbl |-> 0,
          complex |-> FALSE, nbit |-> 0]

\* CaptureOp.seq_callback: the header made from the arguments of the
\* callback. cfreq and bw are in units of CHAN_BW
CaptureHdr(a) ==
    [time_tag |-> a.time_tag,
     seq0 |-> a.seq0,
     chan0 |-> a.chan0,
     cfreq |-> a.chan0,
     nchan |-> a.nchan,
     bw |-> a.nchan * (IF a.fast THEN 4 ELSE 1),
     navg |-> a.navg,
     nstand |-> NstandOf(a.nsrc),
     npol |-> 4,
     nbl |-> a.nsrc,
     complex |-> TRUE,
     nbit |-> 32]

\* DummyOp.main: the header made from the clock (t, in units of FS), the
\* nbl it was built with and the fast flag
DummyHdr(t, nbl, fast) ==
    LET navg0 == IF fast THEN 2400 ELSE 240000
        nsrc == nbl
        chan0 == 1234
        nchan == 192 \div (IF fast THEN 4 ELSE 1)
        npol == 4
    IN [time_tag |-> t,
        seq0 |-> 0,
        chan0 |-> chan0,
        cfreq |-> chan0,
        nchan |-> nchan,
        bw |-> nchan * (IF fast THEN 4 ELSE 1),
        navg |-> navg0 * 8192,
        nstand |-> NstandOf(nsrc),
        npol |-> npol,
        nbl |-> nbl,
        complex |-> TRUE,
        nbit |-> 32]

\* variant: the diagonal offset is left out
AutoIndex_NoOffset(i, nstand) == (i * (2 * (nstand - 1) + 1 - i)) \div 2

\* i*(2*(nstand-1)+1-i)//2 + i
AutoIndex(i, nstand) == (i * (2 * (nstand - 1) + 1 - i)) \div 2 + i

\* autos = [... for i in range(nstand)]
Autos(nstand) == [k \in 1..nstand |-> AutoIndex(k - 1, nstand)]

\* the pairs (i, j) in the order _load_calibration's loops reach them, from
\* row i on: entry k+1 is the pair stored at index k
RECURSIVE PairsFrom(_, _)
PairsFrom(i, nstand) ==
    IF i >= nstand THEN <<>>
    ELSE [t \in 1..(nstand - i) |-> <<i, i + t - 1>>] \o PairsFrom(i + 1, nstand)

\* no sequence header made
InitHdr ==
    /\ hdrIn = NoArgs
    /\ ohdr = NoHdr
    /\ autos = <<>>

\* the writer has published no latest_frequency
InitPub == latest_frequency = "unset"

\* ---------------------------------------------- StatisticsOp.main cadence
\* the wall clock when the recorder starts: later than SaveEvery seconds
\* after the epoch
WallStart == SaveEvery + 1
WallEnd == WallStart + MaxWallSpan

NoStat == [kind |-> "none", emitted |-> FALSE, at |-> 0]

\* StatisticsOp has seen no sequence
InitStat ==
    /\ wall = WallStart
    /\ last_save = 0
    /\ prevEmit = 0
    /\ statEv = NoStat

\* main() has launched the threads and waits in signal.pause()
InitMain ==
    /\ mpc = "pause"
    /\ exitStatus = "running"

\* no quota text parsed
InitExt ==
    /\ quotaIn = <<>>
    /\ quotaOut = NoQuota
    /\ InitMain
    /\ InitHdr
    /\ InitStat
    /\ InitPub

\* ---------------------------------------------------------------- Init
\* variant: the writer starts as if a recording had been active
InitWasActive_True == TRUE

\* was_active = False before the writer's loops
InitWasActive == FALSE

InitWriter ==
    /\ wpc = "noseq"
    /\ time_tag = 0
    /\ first_gulp = FALSE
    /\ was_active = InitWasActive
    /\ active_op = NoOp
    /\ write_error_asserted = FALSE
    /\ write_error_counter = 0
    /\ nerror = 0
    /\ is_started = [o \in OpIds |-> FALSE]
    /\ startCalled = [o \in OpIds |-> FALSE]
    /\ stopCalled = [o \in OpIds |-> FALSE]
    /\ writeCalled = [o \in OpIds |-> FALSE]
    /\ lastActive = NoOp
    /\ failedInSeq = FALSE
    /\ assertedInRun = 0
    /\ ev = NoEvent

InitRing ==
    /\ ring = <<>>
    /\ rpos = [r \in Stages |-> 0]
    /\ ringClosed = FALSE
    /\ seqOpen = FALSE
    /\ seqCount = 0
    /\ shutdown_event = FALSE
    /\ ppc = "run"

InitQueue ==
    /\ now = 0
    /\ lag = 0
    /\ queue = <<>>
    /\ previous = NoOp
    /\ opWin = [o \in OpIds |-> <<0, 0>>]
    /\ cancelled = [o \in OpIds |-> FALSE]
    /\ nextId = 1

InitFill ==
    /\ FILL_QUEUE = <<>>
    /\ fill_level = Unset

\* CaptureOp.main before its loop: the counters are read once
InitCapture ==
    /\ good = 0
    /\ missing = 0
    /\ rx_good = 0
    /\ rx_missing = 0
    /\ last_status = "none"
    /\ ncapture = 0
    /\ nidle = 0
    /\ recvAfterError = FALSE

InitTags ==
    /\ ihdr = [r \in Stages |-> 0]
    /\ tt = [r \in Stages |-> 0]
    /\ ngulp = [r \in Stages |-> 0]

\* ImageOp.__init__: no product, no tag, no update seen
InitCalCache ==
    /\ all_cals = [k \in CalKeys |-> NoTable]
    /\ cal = CalUnset
    /\ caltag = -1
    /\ last_cal_update = 0
    /\ calResult = NoResult
    /\ im = NoImage

\* an empty calibration directory
InitCal ==
    /\ calMtime = 1
    /\ calFiles = [h \in CalHalves |-> 0]
    /\ InitCalCache

\* the fill-level channel is empty (no capture sample yet), the time tags
\* are not followed (one integration per gulp) and there is no calibration
InitAux ==
    /\ InitCal
    /\ InitExt
    /\ InitFill
    /\ InitCapture
    /\ InitTags
    /\ navg = 1
    /\ ntime_gulp = 1
    /\ sev = [r \in Stages |-> "none"]

\* the writer on the ring; the monitoring stages only hold the producer back
Init ==
    /\ InitAux
    /\ InitQueue
    /\ InitRing
    /\ InitWriter
    /\ readers = {"WriterOp"}
    /\ spc = [r \in Monitors |-> "off"]

\* ------------------------------------------------------------ wall clock
Tick ==
    /\ now < MaxTime
    /\ now' = now + 1
    /\ UNCHANGED <<auxVars, lag, queueVars, is_started, ringVars, shutdown_event, spc,
                   writerVars, errVars, histVars, ev>>

\* ------------------------------------------------- signal handler (main)
Signal ==
    /\ ~shutdown_event
    /\ shutdown_event' = TRUE
    /\ UNCHANGED <<auxVars, now, lag, queueVars, is_started, ringVars, spc,
                   writerVars, errVars, histVars, ev>>

\* ------------------------------------------- producer (CaptureOp / DummyOp)
\* the producer loop tests the event before each receive / reserve
ProducerRuns == ppc = "run" /\ ~shutdown_event

ProducerBeginSeq ==
    /\ ProducerRuns
    /\ ~seqOpen
    /\ seqCount < MaxSeqs
    /\ Len(ring) < RingCap
    /\ ring' = RingPut(<<Hdr>>)
    /\ seqOpen' = TRUE
    /\ seqCount' = seqCount + 1
    /\ UNCHANGED <<auxVars, now, lag, queueVars, is_started, rpos, readers, ringClosed,
                   ppc, shutdown_event, spc, writerVars, errVars, histVars, ev>>

ProducerGulp ==
    /\ ProducerRuns
    /\ seqOpen
    /\ Len(ring) < RingCap
    /\ ring' = RingPut(<<Gulp>>)
    /\ UNCHANGED <<auxVars, now, lag, queueVars, is_started, rpos, readers, ringClosed,
                   seqOpen, seqCount, ppc, shutdown_event, spc, writerVars,
                   errVars, histVars, ev>>

\* the sequence ends (another one follows); partial: it ends in a span
\* smaller than a gulp
ProducerEndSeq(partial) ==
    /\ ProducerRuns
    /\ seqOpen
    /\ seqCount < MaxSeqs
    /\ partial => Len(ring) < RingCap
    /\ ring' = RingPut(IF partial THEN <<Short>> ELSE <<>>)
    /\ seqOpen' = FALSE
    /\ UNCHANGED <<auxVars, now, lag, queueVars, is_started, rpos, readers, ringClosed,
                   seqCount, ppc, shutdown_event, spc, writerVars, errVars,
                   histVars, ev>>

\* the producer loop sees the event set, leaves and ends writing
ProducerExit(partial) ==
    /\ ppc = "run"
    /\ shutdown_event
    /\ partial => (seqOpen /\ Len(ring) < RingCap)
    /\ ring' = RingPut(IF partial THEN <<Short>> ELSE <<>>)
    /\ ringClosed' = TRUE
    /\ seqOpen' = FALSE
    /\ ppc' = "done"
    /\ UNCHANGED <<auxVars, now, lag, queueVars, is_started, rpos, readers, seqCount,
                   shutdown_event, spc, writerVars, errVars, histVars, ev>>

\* ------------------------------------------------------- command thread
CmdEnqueue(s, d) ==
    /\ nextId <= MaxOps
    /\ now <= s
    /\ ~Overlaps(s, s + d)
    /\ opWin' = [opWin EXCEPT ![nextId] = <<s, s + d>>]
    /\ queue' = Inserted(nextId, s)
    /\ nextId' = nextId + 1
    /\ UNCHANGED <<auxVars, now, lag, previous, cancelled, is_started, ringVars,
                   shutdown_event, spc, writerVars, errVars, histVars, ev>>

CmdCancel(o) ==
    /\ o \in Range(queue)
    /\ ~cancelled[o]
    /\ cancelled' = [cancelled EXCEPT ![o] = TRUE]
    /\ UNCHANGED <<auxVars, now, lag, queue, previous, opWin, nextId, is_started,
                   ringVars, shutdown_event, spc, writerVars, errVars,
                   histVars, ev>>

CmdDelete(o) ==
    /\ o \in Range(queue)
    /\ queue' = SelectSeq(queue, LAMBDA q : q # o)
    /\ UNCHANGED <<auxVars, now, lag, previous, opWin, cancelled, nextId, is_started,
                   ringVars, shutdown_event, spc, writerVars, errVars,
                   histVars, ev>>

\* ------------------------------------------------------ WriterOp.main
\* end of the sequence before (if any) and set-up of the new one
WriterBeginSeq ==
    /\ wpc \in {"noseq", "inseq"}
    /\ RingHas("WriterOp")
    /\ RingHead("WriterOp") = Hdr
    /\ ring' = RingRead("WriterOp").ring
    /\ rpos' = RingRead("WriterOp").rpos
    /\ first_gulp' = TRUE
    /\ write_error_asserted' = FALSE
    /\ write_error_counter' = 0
    /\ failedInSeq' = FALSE
    /\ wpc' = "inseq"
    /\ ev' = [NoEvent EXCEPT !.kind = "beginseq"]
    /\ latest_frequency' = "chan_to_freq(chan0)"
    /\ UNCHANGED <<fillVars, captureVars, tagVars, sev, calVars, quotaVars,
                   mainVars, hdrVars, statVars, now, lag, queueVars, is_started, readers, ringClosed,
                   seqOpen, seqCount, ppc, shutdown_event, spc, time_tag,
                   was_active, active_op, nerror, assertedInRun, histVars>>

\* a span smaller than the gulp size is ignored
WriterSkipShort ==
    /\ wpc = "inseq"
    /\ RingHas("WriterOp")
    /\ RingHead("WriterOp") \in {Gulp, Short}
    /\ ~FullGulp("WriterOp")
    /\ ring' = RingRead("WriterOp").ring
    /\ rpos' = RingRead("WriterOp").rpos
    /\ ev' = [NoEvent EXCEPT !.kind = "short"]
    /\ UNCHANGED <<auxVars, now, lag, queueVars, is_started, readers, ringClosed,
                   seqOpen, seqCount, ppc, shutdown_event, spc, writerVars,
                   errVars, histVars>>

\* variant: update_lag is called on every gulp
LagAfterGulp_EveryGulp(sample) == now - sample

\* QUEUE.lag after the first_gulp block: update_lag(sample time) on the
\* first gulp of a sequence only
LagAfterGulp(sample) == IF first_gulp THEN now - sample ELSE lag

\* a full gulp, up to the evaluation of QUEUE.active; the span stays held.
\* sample is the sample time of the gulp (the header's time_tag advanced by
\* navg per gulp): samples are taken in order and none lies in the future
WriterPoll(sample) ==
    /\ wpc = "inseq"
    /\ RingHas("WriterOp")
    /\ RingHead("WriterOp") \in {Gulp, Short}
    /\ FullGulp("WriterOp")
    /\ time_tag <= sample
    /\ sample <= now
    /\ time_tag' = sample
    /\ lag' = LagAfterGulp(sample)
    /\ first_gulp' = FALSE
    /\ active_op' = ActiveAt(now - lag')
    /\ FILL_QUEUE' = FillGet.queue
    /\ fill_level' = FillGet.level
    /\ wpc' = "polled"
    /\ ev' = [NoEvent EXCEPT !.kind = "poll", !.op = active_op',
                             !.fill = FillGet.level, !.logs = FillGet.logs]
    /\ UNCHANGED <<captureVars, tagVars, sev, calVars, extVars, now, queueVars, is_started,
                   ringVars, shutdown_event, spc, was_active, errVars, histVars>>

\* the op the writer starts and the op it writes to
StartTarget == active_op

\* variant: QUEUE.active is evaluated a second time for the write
WriteTarget_Reread == QueueActive

WriteTarget == active_op

\* variant: the is_started test is missing
NeedsStart_Always(o) == TRUE

NeedsStart(o) == ~is_started[o]

\* variant: the exception of op.write is not caught
WriteRaisedPc_Propagates == "crashed"

\* where the writer is after op.write raised: the except clause keeps it in
\* the loop
WriteRaisedPc == "inseq"

\* variant: the de-assert leaves the counter as it is
ErrAfterGoodWrite_KeepsCounter ==
    [asserted |-> FALSE,
     counter |-> write_error_counter,
     nerror |-> IF write_error_asserted THEN 0 ELSE nerror,
     logs |-> IF write_error_asserted THEN {"deasserted"} ELSE {}]

\* the write-error state after op.write returned
ErrAfterGoodWrite ==
    [asserted |-> FALSE,
     counter |-> IF write_error_asserted THEN 0 ELSE write_error_counter,
     nerror |-> IF write_error_asserted THEN 0 ELSE nerror,
     logs |-> IF write_error_asserted THEN {"deasserted"} ELSE {}]

\* variant: a failed write sets the flag and leaves the counter as it is
ErrAfterFailedWrite_NoCount ==
    [asserted |-> TRUE,
     counter |-> write_error_counter,
     nerror |-> IF ~write_error_asserted THEN 1 ELSE nerror,
     logs |-> IF ~write_error_asserted THEN {"asserted"} ELSE {}]

\* the write-error state after op.write raised
ErrAfterFailedWrite ==
    LET c == write_error_counter + 1 IN
    [asserted |-> TRUE,
     counter |-> c,
     nerror |-> IF c % ReassertEvery = 0 THEN c
                ELSE IF ~write_error_asserted THEN 1 ELSE nerror,
     logs |-> (IF ~write_error_asserted THEN {"asserted"} ELSE {})
              \cup (IF c % ReassertEvery = 0 THEN {"reasserted"} ELSE {})]

\* the writer thread ends: by an exception leaving main, or by main returning
WriterLeaves(pc) ==
    /\ wpc' = pc
    /\ readers' = readers \ {"WriterOp"}
    /\ ring' = RingDetach("WriterOp").ring
    /\ rpos' = RingDetach("WriterOp").rpos

\* the writer releases its span and goes on to the next one
WriterNextSpan ==
    /\ wpc' = "inseq"
    /\ readers' = readers
    /\ ring' = RingRead("WriterOp").ring
    /\ rpos' = RingRead("WriterOp").rpos

\* active op, not started, and op.start raises: the exception leaves main
WriterStartRaises ==
    /\ wpc = "polled"
    /\ active_op # NoOp
    /\ NeedsStart(active_op)
    /\ startCalled' = [startCalled EXCEPT ![StartTarget] = TRUE]
    /\ WriterLeaves("crashed")
    /\ lastActive' = active_op
    /\ ev' = [NoEvent EXCEPT !.kind = "start_raised", !.op = active_op,
                             !.start = "raised", !.startOn = StartTarget]
    /\ UNCHANGED <<auxVars, now, lag, queueVars, is_started, ringClosed, seqOpen,
                   seqCount, ppc, shutdown_event, spc, time_tag, first_gulp, was_active,
                   active_op, errVars, stopCalled, writeCalled>>

\* active op: start it if needed, then write; writeOk is the outcome of
\* op.write
WriterWrite(writeOk) ==
    /\ wpc = "polled"
    /\ active_op # NoOp
    /\ LET starts == NeedsStart(active_op)
           e == IF writeOk THEN ErrAfterGoodWrite ELSE ErrAfterFailedWrite
       IN /\ is_started' = IF starts THEN [is_started EXCEPT ![StartTarget] = TRUE]
                                     ELSE is_started
          /\ startCalled' = IF starts THEN [startCalled EXCEPT ![StartTarget] = TRUE]
                                      ELSE startCalled
          /\ was_active' = IF starts THEN TRUE ELSE was_active
          /\ write_error_asserted' = e.asserted
          /\ write_error_counter' = e.counter
          /\ nerror' = e.nerror
          /\ failedInSeq' = ~writeOk
          /\ assertedInRun' = IF writeOk THEN 0
                               ELSE IF "asserted" \in e.logs /\ assertedInRun < 2
                                    THEN assertedInRun + 1 ELSE assertedInRun
          /\ writeCalled' = [writeCalled EXCEPT ![WriteTarget] = TRUE]
          /\ lastActive' = active_op
          /\ IF writeOk \/ WriteRaisedPc = "inseq"
             THEN WriterNextSpan
             ELSE WriterLeaves(WriteRaisedPc)
          /\ ev' = [NoEvent EXCEPT !.kind = "write", !.op = active_op,
                                   !.start = IF starts THEN "ok" ELSE "none",
                                   !.startOn = IF starts THEN StartTarget ELSE NoOp,
                                   !.write = IF writeOk THEN "ok" ELSE "raised",
                                   !.wrote = WriteTarget,
                                   !.fill = fill_level,
                                   !.logs = e.logs]
    /\ UNCHANGED <<auxVars, now, lag, queueVars, ringClosed, seqOpen, seqCount, ppc,
                   shutdown_event, spc, time_tag, first_gulp, active_op, stopCalled>>

\* no active op but was_active: clean the queue and stop QUEUE.previous;
\* cleanOk and stopOk are the outcomes of QUEUE.clean and of op.stop
WriterStop(cleanOk, stopOk) ==
    /\ wpc = "polled"
    /\ active_op = NoOp
    /\ was_active
    /\ was_active' = FALSE
    /\ ~cleanOk => stopOk
    /\ queue' = IF cleanOk THEN Cleaned ELSE queue
    /\ previous' = IF cleanOk THEN Promoted ELSE previous
    /\ LET stops == cleanOk /\ previous' # NoOp
           survives == stops /\ stopOk
       IN /\ stopCalled' = IF stops THEN [stopCalled EXCEPT ![previous'] = TRUE]
                                    ELSE stopCalled
          /\ IF survives THEN WriterNextSpan ELSE WriterLeaves("crashed")
          /\ ev' = [NoEvent EXCEPT !.kind = "stop", !.cleanOk = cleanOk,
                                   !.stop = IF stops THEN previous' ELSE NoOp,
                                   !.wasQueued = lastActive \in Range(queue)]
    /\ UNCHANGED <<auxVars, now, lag, opWin, cancelled, nextId, is_started, ringClosed,
                   seqOpen, seqCount, ppc, shutdown_event, spc, time_tag, first_gulp,
                   active_op, errVars, startCalled, writeCalled, lastActive>>

\* no active op and nothing was active: nothing to do for this gulp
WriterIdle ==
    /\ wpc = "polled"
    /\ active_op = NoOp
    /\ ~was_active
    /\ WriterNextSpan
    /\ ev' = [NoEvent EXCEPT !.kind = "idle"]
    /\ UNCHANGED <<auxVars, now, lag, queueVars, is_started, ringClosed, seqOpen,
                   seqCount, ppc, shutdown_event, spc, time_tag, first_gulp, was_active,
                   active_op, errVars, histVars>>

\* the ring has ended: both loops are left and main returns
WriterDone ==
    /\ wpc \in {"noseq", "inseq"}
    /\ StageLeaves("WriterOp")
    /\ WriterLeaves("done")
    /\ ev' = [NoEvent EXCEPT !.kind = "done"]
    /\ latest_frequency' = "null"
    /\ UNCHANGED <<fillVars, captureVars, tagVars, sev, calVars, quotaVars,
                   mainVars, hdrVars, statVars, now, lag, queueVars, is_started, ringClosed, seqOpen,
                   seqCount, ppc, shutdown_event, spc, time_tag, first_gulp, was_active,
                   active_op, errVars, histVars>>

\* ------------------------------------------------------------------ Next
Environment ==
    \/ Tick
    \/ Signal
    \/ ProducerBeginSeq
    \/ ProducerGulp
    \/ \E partial \in BOOLEAN : ProducerEndSeq(partial)
    \/ \E partial \in BOOLEAN : ProducerExit(partial)

Commands ==
    \/ \E s \in 0..MaxTime, d \in 1..MaxDur : CmdEnqueue(s, d)
    \/ \E o \in OpIds : CmdCancel(o)
    \/ \E o \in OpIds : CmdDelete(o)

Writer(maxFail) ==
    \/ WriterBeginSeq
    \/ WriterSkipShort
    \/ \E sample \in 0..now : WriterPoll(sample)
    \/ WriterStartRaises
    \/ \E writeOk \in BOOLEAN : (writeOk \/ write_error_counter < maxFail) /\ WriterWrite(writeOk)
    \/ \E cleanOk \in BOOLEAN, stopOk \in BOOLEAN : WriterStop(cleanOk, stopOk)
    \/ WriterIdle
    \/ WriterDone

Next == Environment \/ Commands \/ Writer(MaxFailRun)

Spec == Init /\ [][Next]_vars

\* ------------------------------------------- write-error scenarios
\* one recording has been enqueued and no further command arrives; runs of
\* failing writes up to MaxErrors are followed
InitErr ==
    /\ InitAux
    /\ InitRing
    /\ InitWriter
    /\ now = 0
    /\ lag = 0
    /\ \E d \in 1..MaxDur :
         opWin = [o \in OpIds |-> IF o = 1 THEN <<0, d>> ELSE <<0, 0>>]
    /\ queue = <<1>>
    /\ previous = NoOp
    /\ cancelled = [o \in OpIds |-> FALSE]
    /\ nextId = 2
    /\ readers = {"WriterOp"}
    /\ spc = [r \in Monitors |-> "off"]

NextErr == Environment \/ Writer(MaxErrors)

SpecErr == InitErr /\ [][NextErr]_vars

\* ---------------------------------- monitoring stages on the same ring
\* SpectraOp, BaselineOp, ImageOp and StatisticsOp share the loop structure:
\* for iseq in iring.read(): ... for ispan in iseq.read(): ...

\* main(): the stages put on the ring for the given command line
StagesFor(quick, image) ==
    {"StatisticsOp", "WriterOp"}
    \cup (IF quick THEN {} ELSE {"SpectraOp", "BaselineOp"})
    \cup (IF ~quick /\ image THEN {"ImageOp"} ELSE {})

StageBeginSeq(r) ==
    /\ r \in readers
    /\ spc[r] \in {"noseq", "inseq"}
    /\ RingHas(r)
    /\ RingHead(r) = Hdr
    /\ spc' = [spc EXCEPT ![r] = "inseq"]
    /\ ring' = RingRead(r).ring
    /\ rpos' = RingRead(r).rpos
    /\ UNCHANGED <<auxVars, now, lag, queueVars, is_started, readers, ringClosed,
                   seqOpen, seqCount, ppc, shutdown_event, writerVars,
                   errVars, histVars, ev>>

\* a span is taken: a short one is ignored, a full gulp is processed
StageSpan(r) ==
    /\ r \in readers
    /\ spc[r] = "inseq"
    /\ RingHas(r)
    /\ RingHead(r) \in {Gulp, Short}
    /\ ring' = RingRead(r).ring
    /\ rpos' = RingRead(r).rpos
    /\ sev' = [sev EXCEPT ![r] = IF FullGulp(r) THEN "gulp" ELSE "skipped"]
    /\ UNCHANGED <<fillVars, captureVars, tagVars, calVars, extVars, now, lag, queueVars,
                   is_started, readers, ringClosed,
                   seqOpen, seqCount, ppc, shutdown_event, spc, writerVars,
                   errVars, histVars, ev>>

StageDone(r) ==
    /\ r \in readers
    /\ spc[r] \in {"noseq", "inseq"}
    /\ StageLeaves(r)
    /\ spc' = [spc EXCEPT ![r] = "done"]
    /\ readers' = readers \ {r}
    /\ ring' = RingDetach(r).ring
    /\ rpos' = RingDetach(r).rpos
    /\ UNCHANGED <<auxVars, now, lag, queueVars, is_started, ringClosed, seqOpen,
                   seqCount, ppc, shutdown_event, writerVars, errVars,
                   histVars, ev>>

\* all stages of a command line on the ring, no recording command
InitStages ==
    /\ InitAux
    /\ InitQueue
    /\ InitRing
    /\ InitWriter
    /\ \E quick \in BOOLEAN, image \in BOOLEAN :
         /\ readers = StagesFor(quick, image)
         /\ spc = [r \in Monitors |->
                     IF r \in StagesFor(quick, image) THEN "noseq" ELSE "off"]

NextStages ==
    \/ Signal
    \/ ProducerBeginSeq
    \/ ProducerGulp
    \/ \E partial \in BOOLEAN : ProducerEndSeq(partial)
    \/ \E partial \in BOOLEAN : ProducerExit(partial)
    \/ \E r \in Monitors : StageBeginSeq(r)
    \/ \E r \in Monitors : StageSpan(r)
    \/ \E r \in Monitors : StageDone(r)
    \/ WriterBeginSeq
    \/ WriterSkipShort
    \/ \E sample \in 0..now : WriterPoll(sample)
    \/ WriterIdle
    \/ WriterDone

SpecStages == InitStages /\ [][NextStages]_vars

\* ------------------------------------------------ CaptureOp.main, fill level
RecvStatus == {"started", "continued", "no_data", "error"}

\* get_good_and_missing_rx: the counters of the stats file, 0 and 0 when the
\* file does not exist
ReadStats(present) == IF present THEN <<rx_good, rx_missing>> ELSE <<0, 0>>

\* variant: the division by zero is not caught
FillLevel_NoZeroCase(g, m, ng, nm) == <<ng - g, (ng - g) + (nm - m)>>

\* float(new_good-good) / (new_good-good + new_missing-missing) as the pair
\* <<numerator, denominator>>, 0.0 on ZeroDivisionError
FillLevel(g, m, ng, nm) ==
    IF (ng - g) + (nm - m) = 0 THEN <<0, 1>>
    ELSE <<ng - g, (ng - g) + (nm - m)>>

\* variant: a full queue takes the new sample and loses its oldest one
FillPut_DropOldest(x) ==
    IF Len(FILL_QUEUE) >= FillMax THEN Append(Tail(FILL_QUEUE), x)
    ELSE Append(FILL_QUEUE, x)

\* FILL_QUEUE.put_nowait(fill_level) with its except queue.Full: pass
FillPut(x) ==
    IF Len(FILL_QUEUE) >= FillMax THEN FILL_QUEUE ELSE Append(FILL_QUEUE, x)

\* the loop calls recv again whatever the last status was: status is
\* assigned and never read
RecvAgain == TRUE

\* capture.recv(): the capture commits what it received to the ring and
\* returns a status; dg and dm are the good and missing bytes it counted.
\* started: a sequence begins (the one before ends, in a short span when
\* partial); continued: a gulp is committed; no_data, error: nothing is
CaptureRecv(status, partial, dg, dm) ==
    /\ ProducerRuns
    /\ RecvAgain
    /\ rx_good + dg <= MaxBytes
    /\ rx_missing + dm <= MaxBytes
    /\ rx_good' = rx_good + dg
    /\ rx_missing' = rx_missing + dm
    /\ last_status' = status
    /\ recvAfterError' = (recvAfterError \/ last_status = "error")
    /\ ppc' = "sample"
    /\ CASE status = "started" ->
              /\ seqCount < MaxSeqs
              /\ partial => seqOpen
              /\ Len(ring) + (IF partial THEN 2 ELSE 1) <= RingCap
              /\ ring' = RingPut(IF partial THEN <<Short, Hdr>> ELSE <<Hdr>>)
              /\ seqOpen' = TRUE
              /\ seqCount' = seqCount + 1
              /\ UNCHANGED <<ncapture, nidle>>
         [] status = "continued" ->
              /\ seqOpen
              /\ ~partial
              /\ ncapture < MaxGulps
              /\ Len(ring) < RingCap
              /\ ring' = RingPut(<<Gulp>>)
              /\ ncapture' = ncapture + 1
              /\ UNCHANGED <<seqOpen, seqCount, nidle>>
         [] OTHER ->
              /\ ~partial
              /\ nidle < MaxIdle
              /\ nidle' = nidle + 1
              /\ UNCHANGED <<ring, seqOpen, seqCount, ncapture>>
    /\ UNCHANGED <<fillVars, tagVars, sev, calVars, extVars, good, missing, now, lag, queueVars,
                   is_started, rpos, readers, ringClosed, shutdown_event, spc,
                   writerVars, errVars, histVars, ev>>

\* after recv: the counters are read, the fill level of the last gulp is
\* computed and put on the queue
CaptureSample(present) ==
    /\ ppc = "sample"
    /\ LET rx == ReadStats(present)
           f == FillLevel(good, missing, rx[1], rx[2])
       IN /\ good' = rx[1]
          /\ missing' = rx[2]
          /\ FILL_QUEUE' = FillPut([gulp |-> ncapture, num |-> f[1], den |-> f[2]])
    /\ ppc' = "run"
    /\ UNCHANGED <<fill_level, tagVars, sev, calVars, extVars, rx_good, rx_missing, last_status,
                   ncapture, nidle, recvAfterError, now, lag, queueVars,
                   is_started, ring, rpos, readers, ringClosed, seqOpen,
                   seqCount, shutdown_event, spc, writerVars, errVars,
                   histVars, ev>>

\* the capture thread; bytes bounds the bytes one recv counts
Capture(bytes) ==
    \/ \E status \in RecvStatus, partial \in BOOLEAN,
          dg \in 0..bytes, dm \in 0..bytes :
         CaptureRecv(status, partial, dg, dm)
    \/ \E present \in BOOLEAN : CaptureSample(present)
    \/ \E partial \in BOOLEAN : ProducerExit(partial)

\* CaptureOp feeding WriterOp and StatisticsOp (--quick), one recording
\* queued; the byte counters stay at 0
InitCaptureRun ==
    /\ InitAux
    /\ InitRing
    /\ InitWriter
    /\ now = 0
    /\ lag = 0
    /\ \E d \in 1..MaxDur :
         opWin = [o \in OpIds |-> IF o = 1 THEN <<0, d>> ELSE <<0, 0>>]
    /\ queue = <<1>>
    /\ previous = NoOp
    /\ cancelled = [o \in OpIds |-> FALSE]
    /\ nextId = 2
    /\ readers = StagesFor(TRUE, FALSE)
    /\ spc = [r \in Monitors |->
                IF r \in StagesFor(TRUE, FALSE) THEN "noseq" ELSE "off"]

NextCaptureRun ==
    \/ Tick
    \/ Signal
    \/ Capture(0)
    \/ \E r \in Monitors : StageBeginSeq(r)
    \/ \E r \in Monitors : StageSpan(r)
    \/ \E r \in Monitors : StageDone(r)
    \/ Writer(MaxFailRun)

SpecFill == InitCaptureRun /\ [][NextCaptureRun]_vars

\* the same pipeline with either producer: CaptureOp, or DummyOp (--offline),
\* which commits gulps and puts nothing on the fill-level queue. Offline is
\* the value of last_status in a run without CaptureOp
Offline == "offline"

InitEitherProducer ==
    /\ InitCal
    /\ InitExt
    /\ InitFill
    /\ good = 0
    /\ missing = 0
    /\ rx_good = 0
    /\ rx_missing = 0
    /\ last_status \in {"none", Offline}
    /\ ncapture = 0
    /\ nidle = 0
    /\ recvAfterError = FALSE
    /\ InitTags
    /\ navg = 1
    /\ ntime_gulp = 1
    /\ sev = [r \in Stages |-> "none"]
    /\ InitRing
    /\ InitWriter
    /\ now = 0
    /\ lag = 0
    /\ \E d \in 1..MaxDur :
         opWin = [o \in OpIds |-> IF o = 1 THEN <<0, d>> ELSE <<0, 0>>]
    /\ queue = <<1>>
    /\ previous = NoOp
    /\ cancelled = [o \in OpIds |-> FALSE]
    /\ nextId = 2
    /\ readers = StagesFor(TRUE, FALSE)
    /\ spc = [r \in Monitors |->
                IF r \in StagesFor(TRUE, FALSE) THEN "noseq" ELSE "off"]

NextEitherProducer ==
    \/ Tick
    \/ Signal
    \/ \E status \in RecvStatus, partial \in BOOLEAN :
         last_status # Offline /\ CaptureRecv(status, partial, 0, 0)
    \/ \E present \in BOOLEAN : CaptureSample(present)
    \/ last_status = Offline /\ ProducerBeginSeq
    \/ last_status = Offline /\ ProducerGulp
    \/ \E partial \in BOOLEAN : last_status = Offline /\ ProducerEndSeq(partial)
    \/ \E partial \in BOOLEAN : ProducerExit(partial)
    \/ \E r \in Monitors : StageBeginSeq(r)
    \/ \E r \in Monitors : StageSpan(r)
    \/ \E r \in Monitors : StageDone(r)
    \/ Writer(MaxFailRun)

SpecFillModes == InitEitherProducer /\ [][NextEitherProducer]_vars

\* the queue after FillMax - 1 receives that timed out with the counters at
\* rest and before any gulp reached the writer
Backlog == [i \in 1..(FillMax - 1) |-> [gulp |-> 0, num |-> 0, den |-> 1]]

\* CaptureOp feeding WriterOp and StatisticsOp, no recording queued; the
\* fill-level queue starts one sample short of full, the byte counters stay
\* at 0
InitCaptureFull ==
    /\ InitCal
    /\ InitExt
    /\ FILL_QUEUE = Backlog
    /\ fill_level = Unset
    /\ InitCapture
    /\ InitTags
    /\ navg = 1
    /\ ntime_gulp = 1
    /\ sev = [r \in Stages |-> "none"]
    /\ InitQueue
    /\ InitRing
    /\ InitWriter
    /\ readers = StagesFor(TRUE, FALSE)
    /\ spc = [r \in Monitors |->
                IF r \in StagesFor(TRUE, FALSE) THEN "noseq" ELSE "off"]

NextCaptureFull ==
    \/ Signal
    \/ Capture(0)
    \/ \E r \in Monitors : StageBeginSeq(r)
    \/ \E r \in Monitors : StageSpan(r)
    \/ \E r \in Monitors : StageDone(r)
    \/ WriterBeginSeq
    \/ WriterSkipShort
    \/ WriterPoll(0)
    \/ WriterIdle
    \/ WriterDone

SpecFillFull == InitCaptureFull /\ [][NextCaptureFull]_vars

\* the capture thread alone, its byte counters moving: the samples it
\* computes depend on the counters only, so the consumers are left where
\* they start and the ring takes what fits
InitCaptureOnly ==
    /\ InitAux
    /\ InitQueue
    /\ InitRing
    /\ InitWriter
    /\ readers = StagesFor(TRUE, FALSE)
    /\ spc = [r \in Monitors |->
                IF r \in StagesFor(TRUE, FALSE) THEN "noseq" ELSE "off"]

NextCaptureOnly ==
    \/ Signal
    \/ Capture(1)

SpecCapture == InitCaptureOnly /\ [][NextCaptureOnly]_vars

\* --------------------------------------- ImageOp._load_calibration
\* the directory is updated from outside: a table is written or removed and
\* the directory's mtime grows
CalDirUpdate(h, put) ==
    /\ calMtime < MaxMtime
    /\ calMtime' = calMtime + 1
    /\ calFiles' = [calFiles EXCEPT ![h] = IF put THEN calMtime' ELSE 0]
    /\ UNCHANGED <<all_cals, cal, caltag, last_cal_update, calResult, im, extVars,
                   fillVars, captureVars, tagVars, sev, now, lag, queueVars,
                   is_started, ringVars, shutdown_event, spc, writerVars,
                   errVars, histVars, ev>>

\* one imaging cadence: the call of _load_calibration for data whose first
\* frequency is h half Hz, and the image made with what it gave. fails: reading a
\* table raises, after the tables under the keys in part were loaded (only
\* a call that reloads reads tables, and the one that raises is not loaded)
LoadCalibration(h, fails, part) ==
    /\ "ImageOp" \in readers
    /\ fails => /\ NeedsReload
                /\ \E k \in CalKeys \ part : TablesFor(k) # {}
    /\ ~fails => part = {}
    /\ \E tabs \in LoadedTables :
         LET reload == NeedsReload
             key == Round(h)
             res == [NoResult EXCEPT !.freq = h, !.seen = calMtime,
                                     !.reloaded = reload]
         IN IF reload /\ fails
            THEN /\ all_cals' = [k \in CalKeys |->
                                   IF k \in part THEN tabs[k] ELSE NoTable]
                 /\ calResult' = [res EXCEPT !.kind = "raised"]
                 /\ UNCHANGED <<cal, caltag, last_cal_update>>
            ELSE LET cals0 == IF reload THEN tabs ELSE all_cals
                     cal0 == IF reload THEN CacheAfterReload.cal ELSE cal
                     tag0 == IF reload THEN CacheAfterReload.tag ELSE caltag
                 IN /\ all_cals' = cals0
                    /\ last_cal_update' = IF reload THEN calMtime
                                           ELSE last_cal_update
                    /\ IF key = tag0
                       THEN /\ cal' = cal0
                            /\ caltag' = tag0
                            /\ calResult' =
                                 IF cal0.kind = "unset"
                                 THEN [res EXCEPT !.kind = "raised"]
                                 ELSE [res EXCEPT !.kind = cal0.kind,
                                                  !.key = cal0.key,
                                                  !.h = cal0.h,
                                                  !.gen = cal0.gen]
                       ELSE IF cals0[key] = NoTable
                       THEN /\ cal' = CalZeros
                            /\ caltag' = tag0
                            /\ calResult' = [res EXCEPT !.kind = "raised"]
                       ELSE /\ cal' = [kind |-> "product", key |-> key,
                                       h |-> cals0[key].h,
                                       gen |-> cals0[key].gen]
                            /\ caltag' = key
                            /\ calResult' = [res EXCEPT !.kind = "product",
                                                        !.key = key,
                                                        !.h = cals0[key].h,
                                                        !.gen = cals0[key].gen]
    /\ im' = ImageOf(calResult')
    /\ UNCHANGED <<calMtime, calFiles, extVars, fillVars, captureVars, tagVars, sev,
                   now, lag, queueVars, is_started, ringVars, shutdown_event,
                   spc, writerVars, errVars, histVars, ev>>

\* ImageOp with a calibration directory that holds any of the tables
InitCalRun ==
    /\ calMtime = 1
    /\ calFiles \in [CalHalves -> {0, 1}]
    /\ InitCalCache
    /\ InitExt
    /\ InitFill
    /\ InitCapture
    /\ InitTags
    /\ navg = 1
    /\ ntime_gulp = 1
    /\ sev = [r \in Stages |-> "none"]
    /\ InitQueue
    /\ InitRing
    /\ InitWriter
    /\ readers = StagesFor(FALSE, TRUE)
    /\ spc = [r \in Monitors |->
                IF r \in StagesFor(FALSE, TRUE) THEN "noseq" ELSE "off"]

NextCalRun ==
    \/ \E h \in CalHalves, put \in BOOLEAN : CalDirUpdate(h, put)
    \/ \E h \in CalHalves, fails \in BOOLEAN, part \in SUBSET CalKeys :
         LoadCalibration(h, fails, part)

SpecCal == InitCalRun /\ [][NextCalRun]_vars

\* ------------------------------------------- quota_size on the command line
\* argparse applies quota_size once to the text of --record-directory-quota
QuotaSize ==
    /\ quotaOut.kind = "none"
    /\ quotaOut' = quota_size(quotaIn)
    /\ UNCHANGED <<quotaIn, mainVars, hdrVars, statVars, pubVars, fillVars, captureVars, tagVars, sev, calVars, now,
                   lag, queueVars, is_started, ringVars, shutdown_event, spc,
                   writerVars, errVars, histVars, ev>>

InitQuota ==
    /\ quotaIn \in QuotaInputs
    /\ quotaOut = NoQuota
    /\ InitMain
    /\ InitHdr
    /\ InitStat
    /\ InitPub
    /\ InitCal
    /\ InitFill
    /\ InitCapture
    /\ InitTags
    /\ navg = 1
    /\ ntime_gulp = 1
    /\ sev = [r \in Stages |-> "none"]
    /\ InitQueue
    /\ InitRing
    /\ InitWriter
    /\ readers = {"WriterOp"}
    /\ spc = [r \in Monitors |-> "off"]

NextQuota == QuotaSize

SpecQuota == InitQuota /\ [][NextQuota]_vars

\* ------------------------------------------------ the stages' time tags
\* what a stage adds to its time_tag after a full gulp: navg * ntime_gulp
\* in SpectraOp, BaselineOp, ImageOp and StatisticsOp, navg in WriterOp
TimeStep(r) == IF r = "WriterOp" THEN navg ELSE navg * ntime_gulp

\* a stage takes the header of a sequence: time_tag = ihdr['time_tag']
TagBeginSeq(r, h) ==
    /\ ihdr' = [ihdr EXCEPT ![r] = h]
    /\ tt' = [tt EXCEPT ![r] = h]
    /\ ngulp' = [ngulp EXCEPT ![r] = 0]
    /\ sev' = [sev EXCEPT ![r] = "header"]
    /\ UNCHANGED <<fillVars, captureVars, calVars, extVars, navg, ntime_gulp, now, lag,
                   queueVars, is_started, ringVars, shutdown_event, spc,
                   writerVars, errVars, histVars, ev>>

\* a stage has handled a full gulp: the end of its loop body
TagGulp(r) ==
    /\ sev[r] # "none"
    /\ ngulp[r] < MaxGulps
    /\ tt' = [tt EXCEPT ![r] = @ + TimeStep(r)]
    /\ ngulp' = [ngulp EXCEPT ![r] = @ + 1]
    /\ sev' = [sev EXCEPT ![r] = "gulp"]
    /\ UNCHANGED <<fillVars, captureVars, calVars, extVars, navg, ntime_gulp, ihdr, now, lag,
                   queueVars, is_started, ringVars, shutdown_event, spc,
                   writerVars, errVars, histVars, ev>>

\* every stage of a command line, any navg and gulp size
InitTagRun ==
    /\ InitCal
    /\ InitExt
    /\ InitFill
    /\ InitCapture
    /\ InitTags
    /\ navg \in 1..MaxNavg
    /\ ntime_gulp \in 1..MaxNtime
    /\ sev = [r \in Stages |-> "none"]
    /\ InitQueue
    /\ InitRing
    /\ InitWriter
    /\ \E quick \in BOOLEAN, image \in BOOLEAN :
         /\ readers = StagesFor(quick, image)
         /\ spc = [r \in Monitors |->
                     IF r \in StagesFor(quick, image) THEN "noseq" ELSE "off"]

NextTagRun ==
    \/ \E r \in readers, h \in 0..MaxHdr : TagBeginSeq(r, h)
    \/ \E r \in readers : TagGulp(r)

SpecTags == InitTagRun /\ [][NextTagRun]_vars

\* ------------------------------------------- StatisticsOp.main, cadence
\* what is left of the model when StatisticsOp or its clock moves
StatFrame ==
    UNCHANGED <<fillVars, captureVars, sev, calVars, quotaVars, mainVars,
                hdrVars, pubVars, navg, ntime_gulp, now, lag, queueVars, is_started,
                ringVars, shutdown_event, spc, writerVars, errVars, histVars,
                ev>>

\* wall time passes
WallTick(d) ==
    /\ wall + d <= WallEnd
    /\ wall' = wall + d
    /\ UNCHANGED <<last_save, prevEmit, statEv, ihdr, tt, ngulp>>
    /\ StatFrame

\* a new sequence: time_tag from the header, last_save = 0.0
StatBeginSeq(h) ==
    /\ ihdr' = [ihdr EXCEPT !["StatisticsOp"] = h]
    /\ tt' = [tt EXCEPT !["StatisticsOp"] = h]
    /\ ngulp' = [ngulp EXCEPT !["StatisticsOp"] = 0]
    /\ last_save' = 0
    /\ prevEmit' = 0
    /\ statEv' = [NoStat EXCEPT !.kind = "header"]
    /\ UNCHANGED wall
    /\ StatFrame

\* a span smaller than a gulp: continue
StatShort ==
    /\ statEv.kind \in {"header", "gulp"}
    /\ statEv' = [NoStat EXCEPT !.kind = "skipped"]
    /\ UNCHANGED <<wall, last_save, prevEmit, ihdr, tt, ngulp>>
    /\ StatFrame

\* variant: the monitor points are written on every gulp
SaveDue_Always == TRUE

\* if time.time() - last_save > 60
SaveDue == wall - last_save > SaveEvery

\* a full gulp; dur: the seconds it takes to compute and write the monitor
\* points (last_save is read from the clock after they are written)
StatGulp(dur) ==
    /\ statEv.kind # "none"
    /\ ngulp["StatisticsOp"] < MaxGulps
    /\ wall + dur <= WallEnd
    /\ ~SaveDue => dur = 0
    /\ wall' = wall + dur
    /\ last_save' = IF SaveDue THEN wall' ELSE last_save
    /\ prevEmit' = IF SaveDue THEN wall ELSE prevEmit
    /\ statEv' = [kind |-> "gulp", emitted |-> SaveDue, at |-> wall]
    /\ tt' = [tt EXCEPT !["StatisticsOp"] = @ + TimeStep("StatisticsOp")]
    /\ ngulp' = [ngulp EXCEPT !["StatisticsOp"] = @ + 1]
    /\ UNCHANGED ihdr
    /\ StatFrame

InitStatRun ==
    /\ InitCal
    /\ InitExt
    /\ InitFill
    /\ InitCapture
    /\ InitTags
    /\ navg \in 1..MaxNavg
    /\ ntime_gulp \in 1..MaxNtime
    /\ sev = [r \in Stages |-> "none"]
    /\ InitQueue
    /\ InitRing
    /\ InitWriter
    /\ readers = StagesFor(TRUE, FALSE)
    /\ spc = [r \in Monitors |->
                IF r \in StagesFor(TRUE, FALSE) THEN "noseq" ELSE "off"]

NextStatRun ==
    \/ \E d \in {SaveEvery \div 2, SaveEvery \div 2 + 1} : WallTick(d)
    \/ \E h \in 0..MaxHdr : StatBeginSeq(h)
    \/ StatShort
    \/ \E dur \in 0..1 : StatGulp(dur)

SpecStats == InitStatRun /\ [][NextStatRun]_vars

\* ------------------------------------------------ shutdown, fair threads
\* main(): thread.join() has returned for the producer and every stage
ThreadsJoined ==
    /\ ppc = "done"
    /\ wpc = "done"
    /\ \A r \in Monitors : spc[r] \in {"off", "done"}

ProducerThread ==
    \/ ProducerBeginSeq
    \/ ProducerGulp
    \/ \E partial \in BOOLEAN : ProducerEndSeq(partial)
    \/ \E partial \in BOOLEAN : ProducerExit(partial)

StageThread(r) == StageBeginSeq(r) \/ StageSpan(r) \/ StageDone(r)

WriterThread ==
    \/ WriterBeginSeq
    \/ WriterSkipShort
    \/ \E sample \in 0..now : WriterPoll(sample)
    \/ WriterIdle
    \/ WriterDone

\* every started thread keeps being scheduled
FairThreads ==
    /\ WF_vars(ProducerThread)
    /\ WF_vars(WriterThread)
    /\ \A r \in Monitors : WF_vars(StageThread(r))

SpecLive == InitStages /\ [][NextStages]_vars /\ FairThreads

\* ------------------------------------- the producers' sequence headers
\* what is left of the model when a header is made
HdrFrame ==
    UNCHANGED <<hdrIn, fillVars, captureVars, tagVars, sev, calVars, quotaVars,
                mainVars, statVars, pubVars, now, lag, queueVars, is_started, ringVars,
                shutdown_event, spc, writerVars, errVars, histVars, ev>>

\* CaptureOp.seq_callback is called for a new sequence
SeqCallback ==
    /\ hdrIn.producer = "CaptureOp"
    /\ ohdr = NoHdr
    /\ ohdr' = CaptureHdr(hdrIn)
    /\ UNCHANGED autos
    /\ HdrFrame

\* DummyOp.main makes the header of its one sequence
DummyHeader ==
    /\ hdrIn.producer = "DummyOp"
    /\ ohdr = NoHdr
    /\ ohdr' = DummyHdr(hdrIn.time_tag, hdrIn.nsrc, hdrIn.fast)
    /\ UNCHANGED autos
    /\ HdrFrame

\* a stage (SpectraOp, StatisticsOp) takes nstand from the header and lists
\* the auto-correlations
StageAutos ==
    /\ ohdr # NoHdr
    /\ autos = <<>>
    /\ autos' = Autos(ohdr.nstand)
    /\ UNCHANGED ohdr
    /\ HdrFrame

\* what seq_callback is called with, and what DummyOp is built with
CaptureArgs ==
    [producer : {"CaptureOp"}, seq0 : {0, 1}, time_tag : 0..MaxHdr,
     chan0 : {0, 1234}, nchan : {48, 192}, navg : 1..MaxNavg,
     nsrc : 1..Baselines(MaxNstand), fast : BOOLEAN]
DummyArgs ==
    [producer : {"DummyOp"}, seq0 : {0}, time_tag : 0..MaxHdr,
     chan0 : {0}, nchan : {0}, navg : {0},
     nsrc : 1..Baselines(MaxNstand), fast : BOOLEAN]

InitHeaders ==
    /\ hdrIn \in CaptureArgs \cup DummyArgs
    /\ ohdr = NoHdr
    /\ autos = <<>>
    /\ InitPub
    /\ quotaIn = <<>>
    /\ quotaOut = NoQuota
    /\ InitMain
    /\ InitStat
    /\ InitCal
    /\ InitFill
    /\ InitCapture
    /\ InitTags
    /\ navg = 1
    /\ ntime_gulp = 1
    /\ sev = [r \in Stages |-> "none"]
    /\ InitQueue
    /\ InitRing
    /\ InitWriter
    /\ readers = {"WriterOp"}
    /\ spc = [r \in Monitors |-> "off"]

NextHeaders == SeqCallback \/ DummyHeader \/ StageAutos

SpecHeaders == InitHeaders /\ [][NextHeaders]_vars

\* ------------------------------------------------------- main(): the end
\* what is left of the model when main moves
MainFrame ==
    UNCHANGED <<fillVars, captureVars, tagVars, sev, calVars, quotaVars, hdrVars,
                statVars, pubVars, now,
                lag, queueVars, is_started, ringVars, shutdown_event, spc,
                writerVars, errVars, histVars, ev>>

\* the handler has set the event: signal.pause() returns and the loop ends
MainWake ==
    /\ mpc = "pause"
    /\ shutdown_event
    /\ mpc' = "join"
    /\ UNCHANGED exitStatus
    /\ MainFrame

\* thread.join() has returned for every thread
MainJoin ==
    /\ mpc = "join"
    /\ ThreadsJoined
    /\ mpc' = "kill"
    /\ UNCHANGED exitStatus
    /\ MainFrame

\* os.system("kill -9 <own pid>"), then return 0 into sys.exit. The shell
\* sends SIGKILL to the process, which ends there; only when the command
\* could not be run (spawned false) does main return
MainKill(spawned) ==
    /\ mpc = "kill"
    /\ mpc' = "ended"
    /\ exitStatus' = IF spawned THEN "SIGKILL" ELSE "exit 0"
    /\ MainFrame

NextMain ==
    \/ NextStages
    \/ MainWake
    \/ MainJoin
    \/ \E spawned \in BOOLEAN : MainKill(spawned)

SpecMain == InitStages /\ [][NextMain]_vars


\* ================================================================ claims
\* a step in which the writer handles the gulp it polled QUEUE.active for
GulpHandled == wpc = "polled" /\ wpc' # "polled"

\* C1: within a sequence, once writes have raised, the first write that
\* returns de-asserts the write error: write_error_asserted becomes false,
\* write_error_counter becomes 0 and nerror=0 is published
C1_GoodWriteResets ==
    [][(GulpHandled /\ ev'.write = "ok" /\ failedInSeq)
         => /\ ~write_error_asserted'
            /\ write_error_counter' = 0
            /\ nerror' = 0
            /\ "deasserted" \in ev'.logs]_vars

C1_Witness ==
    /\ ev.kind = "write"
    /\ ev.write = "ok"
    /\ "deasserted" \in ev.logs
    /\ ~write_error_asserted
    /\ write_error_counter = 0

\* C2: in a run of consecutive failing writes the 'asserted' log is emitted
\* exactly once, at the first failure of the run
C2_AssertedOncePerRun == assertedInRun <= 1

\* C3: an exception of op.write leaves the writer in its loop, reading the
\* ring, and every gulp for which a started op is active calls write on it
C3_WriteErrorKeepsLoop ==
    [][GulpHandled
         => /\ ev'.write = "raised" => (wpc' = "inseq" /\ "WriterOp" \in readers')
            /\ (active_op # NoOp /\ is_started[active_op])
                 => (ev'.write # "none" /\ ev'.wrote = active_op)]_vars

C3_Witness ==
    /\ ev.kind = "write"
    /\ ev.write = "raised"
    /\ ev.start = "none"
    /\ write_error_counter >= 2
    /\ wpc = "inseq"
    /\ "WriterOp" \in readers

\* C4: no failure of a per-gulp step (op.start, op.write, QUEUE.clean,
\* op.stop raising) ends the writer thread
C4_WriterNeverDies == wpc # "crashed"

\* C5: at most one op is active at any instant, and a gulp is started and
\* written on that one op only: the op the writer's single evaluation of
\* QUEUE.active returned
C5_OneOpPerGulp ==
    /\ Cardinality({o \in Range(queue) : ActiveAtTime(o, QueueNow)}) <= 1
    /\ ev.kind \in {"write", "start_raised"}
         => /\ ev.op # NoOp
            /\ ev.startOn \in {NoOp, ev.op}
            /\ ev.kind = "write" => ev.wrote = ev.op

C5_Witness ==
    /\ ev.kind = "write"
    /\ ev.start = "ok"
    /\ ev.wrote = ev.op
    /\ Len(queue) = 2

C7_StopsJustActiveOp ==
    (/\ ev.kind = "stop"
     /\ ev.cleanOk
     /\ ev.wasQueued
     /\ \A o \in OpIds : ~cancelled[o])
      => (~was_active /\ ev.stop # NoOp /\ ev.stop = lastActive)

\* C8: of two recordings whose windows touch, the first is stopped before
\* the second is started
C8_StopBeforeNextStart ==
    \A a \in OpIds, b \in OpIds :
      (/\ a # b
       /\ opWin[a][1] < opWin[a][2]
       /\ opWin[a][2] = opWin[b][1]
       /\ is_started[a]
       /\ is_started[b]) => stopCalled[a]

\* C9: when WriterOp.main has returned, every op it started has been stopped
C9_StopOnShutdown ==
    wpc = "done" => \A o \in OpIds : is_started[o] => stopCalled[o]

C12_NoRecvAfterError == ~recvAfterError

\* C13: in every stage the time_tag of the gulp at hand is the header's
\* time_tag plus navg * ntime_gulp for every full gulp handled before it
C13_TagPerGulp ==
    \A r \in Stages :
      sev[r] # "none" => tt[r] = ihdr[r] + ngulp[r] * navg * ntime_gulp

\* C14: the fill level the writer takes for a gulp is -1.0 or the ratio the
\* capture computed after that gulp or after the gulp before it
C14_FillWithinOneGulp ==
    wpc = "polled"
      => \/ fill_level = NoFill
         \/ fill_level.gulp \in {WriterGulpNo, WriterGulpNo - 1}

\* C15: the fill-level queue never holds more than 1000 samples; a sample
\* computed while it is full is discarded, the queue is left as it was, and
\* the capture thread goes on to its next receive
C15_DropNewestOnFull ==
    /\ [](Len(FILL_QUEUE) <= FillMax)
    /\ [](ppc = "sample" => ENABLED (\E present \in BOOLEAN :
                                       CaptureSample(present)))
    /\ [][(ppc = "sample" /\ ppc' # ppc /\ Len(FILL_QUEUE) >= FillMax)
            => (FILL_QUEUE' = FILL_QUEUE /\ ppc' = "run")]_vars

\* the queue is full and the sample of the last gulp is not its newest entry
C15_Witness ==
    /\ ppc = "run"
    /\ last_status = "continued"
    /\ Len(FILL_QUEUE) = FillMax
    /\ FILL_QUEUE[FillMax].gulp < ncapture

\* C16: every sample the capture thread puts on the queue lies in [0,1] and
\* is good_delta / (good_delta + missing_delta) of the two successive counter
\* readings, 0.0 when the denominator is zero, the readings of an absent
\* stats file (0 and 0) included; a sample is the pair num / den
C16_SampleIsRatio ==
    /\ [](\A i \in DOMAIN FILL_QUEUE :
            LET f == FILL_QUEUE[i]
            IN \/ f.den > 0 /\ 0 <= f.num /\ f.num <= f.den
               \/ f.den < 0 /\ f.den <= f.num /\ f.num <= 0)
    /\ [][Len(FILL_QUEUE') = Len(FILL_QUEUE) + 1
            => LET f == FILL_QUEUE'[Len(FILL_QUEUE')]
                   gd == good' - good
                   md == missing' - missing
               IN /\ gd + md = 0 => (f.num = 0 /\ f.den = 1)
                  /\ gd + md # 0 => (f.num = gd /\ f.den = gd + md)]_vars

\* samples of each kind are queued: one of a reading that fell back to 0, 0
\* after the counters had moved, one of a window with good and missing
\* bytes, one of a window without bytes
C16_Witness ==
    /\ \E i \in DOMAIN FILL_QUEUE : FILL_QUEUE[i].den < 0
    /\ \E i \in DOMAIN FILL_QUEUE :
          0 < FILL_QUEUE[i].num /\ FILL_QUEUE[i].num < FILL_QUEUE[i].den
    /\ \E i \in DOMAIN FILL_QUEUE :
          FILL_QUEUE[i].num = 0 /\ FILL_QUEUE[i].den = 1

\* C17: the writer takes a sample from the fill-level queue only when it
\* takes a full gulp, one per gulp, and is never held by the queue; on an
\* empty queue it uses -1.0, logs a warning and goes on to handle the gulp
C17_FillPopPerGulp ==
    /\ [][Len(FILL_QUEUE') < Len(FILL_QUEUE)
            => /\ wpc = "inseq" /\ wpc' = "polled"
               /\ FullGulp("WriterOp")
               /\ FILL_QUEUE' = Tail(FILL_QUEUE)
               /\ fill_level' = Head(FILL_QUEUE)]_vars
    /\ [][(wpc = "inseq" /\ wpc' = "polled" /\ FILL_QUEUE = <<>>)
            => /\ fill_level' = NoFill
               /\ "nofill" \in ev'.logs
               /\ FILL_QUEUE' = <<>>]_vars
    /\ []((wpc = "inseq" /\ RingHas("WriterOp") /\ FullGulp("WriterOp"))
            => ENABLED (\E sample \in 0..now : WriterPoll(sample)))
    /\ []((wpc = "polled" /\ fill_level = NoFill)
            => ENABLED Writer(MaxFailRun))

\* a gulp taken on an empty queue has been written with fill level -1.0
C17_Witness ==
    /\ ev.kind = "write"
    /\ ev.write = "ok"
    /\ ev.fill = NoFill

\* C18: a stage that takes a span smaller than the gulp size skips it: a
\* monitoring stage processes nothing and leaves its time tag, the writer
\* leaves lag, time tag, the fill-level queue, the operations queue and the
\* ops' call histories as they were. Took(r): reader r released the span at
\* its head
C18_ShortSpanSkipped ==
    [][LET Took(r) == /\ r \in readers
                      /\ readers' = readers
                      /\ RingHas(r)
                      /\ RingHead(r) = Short
                      /\ ring' = RingRead(r).ring
                      /\ rpos' = RingRead(r).rpos
       IN /\ \A r \in Monitors :
               Took(r) => /\ sev'[r] = "skipped"
                          /\ UNCHANGED <<tagVars, spc, fillVars, writerVars,
                                         histVars, queueVars, lag>>
          /\ Took("WriterOp")
               => /\ ev'.kind = "short"
                  /\ UNCHANGED <<lag, fillVars, tagVars, queueVars, is_started,
                                 writerVars, errVars, histVars, sev>>]_vars

\* the writer has skipped a short span while its recording was started, and
\* the statistics stage has skipped one too
C18_Witness ==
    /\ ev.kind = "short"
    /\ is_started[1]
    /\ sev["StatisticsOp"] = "skipped"

\* C19: with no recording ever enqueued the writer handles every gulp by
\* doing nothing: no start, write, clean or stop is called or could be,
\* was_active stays false and the write error stays de-asserted, counter 0
C19_IdleWithoutOps ==
    /\ [](/\ ~was_active
          /\ ~write_error_asserted
          /\ write_error_counter = 0
          /\ nerror = 0
          /\ \A o \in OpIds :
                ~startCalled[o] /\ ~writeCalled[o] /\ ~stopCalled[o]
          /\ wpc = "polled"
                => /\ active_op = NoOp
                   /\ ENABLED WriterIdle
                   /\ ~ENABLED (Writer(MaxFailRun) /\ ev'.kind # "idle"))
    /\ [][GulpHandled => /\ ev'.kind = "idle"
                         /\ ~ev'.cleanOk
                         /\ UNCHANGED <<queueVars, histVars, errVars,
                                        is_started>>]_vars

\* the writer has let a gulp pass and gone on to a second sequence
C19_Witness ==
    /\ ev.kind = "idle"
    /\ wpc = "inseq"
    /\ seqCount = MaxSeqs
    /\ queue = <<>>
    /\ previous = NoOp

\* C20: a product that _load_calibration returns is the one under the key
\* round(freq[0]) and is built from a table as the directory holds it at the
\* mtime the call read: nothing loaded or built before an mtime increase is
\* returned after it
C20_NoStaleProduct ==
    (calResult.kind = "product" /\ calResult.seen = calMtime)
      => /\ calResult.key = Round(calResult.freq)
         /\ Round(calResult.h) = calResult.key
         /\ calFiles[calResult.h] = calResult.gen
         /\ last_cal_update = calMtime
         /\ \A k \in CalKeys :
               all_cals[k] # NoTable
                 => calFiles[all_cals[k].h] = all_cals[k].gen

\* after the last mtime increase a product is returned for a frequency that
\* rounds to its key, built from a table written before that increase
C20_Witness ==
    /\ calResult.kind = "product"
    /\ calMtime = MaxMtime
    /\ calResult.seen = calMtime
    /\ calResult.gen < calMtime
    /\ calResult.freq # calResult.h

\* C21: a call that finds the directory's mtime increased either leaves the
\* table set, the cached product, the cached tag and the recorded mtime all
\* as they were, or brings all four to the new directory state; no partly
\* loaded table set stays behind
C21_ReloadAtomic ==
    [][(calMtime' = calMtime /\ calMtime > last_cal_update)
         => \/ UNCHANGED <<all_cals, cal, caltag, last_cal_update>>
            \/ /\ last_cal_update' = calMtime
               /\ all_cals' \in LoadedTables
               /\ cal'.kind = "product"
                    => (cal'.key = caltag'
                        /\ cal'.gen = calFiles[cal'.h])]_vars

\* C22: when _load_calibration raises, a warning is logged, the image of
\* that cadence is made with no calibration applied and labelled Uncal, and
\* the imager goes on to its next cadence
C22_RaiseGivesUncal ==
    calResult.kind = "raised"
      => /\ im.warned
         /\ im.tag = "Uncal"
         /\ im.applied = "none"
         /\ "ImageOp" \in readers
         /\ ENABLED (\E h \in CalHalves : LoadCalibration(h, FALSE, {}))

\* both ways of raising have happened: no table under the key of the data
\* after a reload that went through, and a table that could not be read
C22_Witness ==
    /\ calResult.kind = "raised"
    /\ im.tag = "Uncal"
    /\ cal.kind = "zeros"
    /\ calMtime > last_cal_update
    /\ last_cal_update > 0

\* C23: a cadence reloads the tables exactly when the directory's mtime is
\* greater than the one recorded at the last reload that went through; a
\* reload that goes through and finds a table under the key of the data
\* gives an image labelled Cal, and records the mtime, so that no further
\* reload happens until the mtime grows again
C23_ReloadOnMtime ==
    [][calMtime' = calMtime
         => /\ calResult'.reloaded = (calMtime > last_cal_update)
            /\ ~calResult'.reloaded
                 => UNCHANGED <<all_cals, last_cal_update>>
            /\ (calResult'.reloaded /\ calResult'.kind # "raised")
                 => /\ im'.tag = "Cal"
                    /\ im'.applied = "product"
                    /\ last_cal_update' = calMtime
                    /\ calMtime' <= last_cal_update']_vars

\* a cadence without reload has followed, at the same mtime, a cadence that
\* reloaded after the mtime had grown
C23_Witness ==
    /\ ~calResult.reloaded
    /\ calResult.kind = "product"
    /\ im.tag = "Cal"
    /\ last_cal_update = calMtime
    /\ calMtime > 1

\* C24: for every quota text 'Nw Nd H:M' quota_size returns
\* (7*24*w + 24*d + h)*3600 + 60*m seconds, '1w 2d 3:30' gives 790200, and
\* a bare integer is taken as minutes
C24_QuotaSeconds ==
    quotaOut.kind # "none"
      => /\ \A w \in 0..MaxW, d \in 0..MaxD, h \in 0..MaxH, m \in 0..MaxM :
              quotaIn = QuotaText(w, d, h, m)
                => /\ quotaOut.kind = "ok"
                   /\ quotaOut.seconds = (7 * 24 * w + 24 * d + h) * 3600 + 60 * m
         /\ quotaIn = QuotaText(1, 2, 3, 30) => quotaOut.seconds = 790200
         /\ \A m \in 0..MaxBare :
              quotaIn = Digits(m)
                => quotaOut.kind = "ok" /\ quotaOut.seconds = 60 * m

\* C25: quota_size does not raise when one of the w, d, h: components was
\* parsed and the text left is empty or blank (the minutes are then 0), and
\* it raises ValueError exactly when no component was parsed
C25_QuotaRaises ==
    quotaOut.kind # "none"
      => /\ ((quotaOut.wfound \/ quotaOut.dfound \/ quotaOut.hfound)
               /\ Strip(quotaOut.rest) = <<>>)
              => quotaOut.kind = "ok"
         /\ quotaOut.kind = "ValueError"
              <=> ~(quotaOut.wfound \/ quotaOut.dfound \/ quotaOut.hfound
                      \/ quotaOut.mfound)

\* C26: after a clean shutdown (event set by a signal, all threads joined)
\* the process terminates with exit code 0
C26_CleanExitZero ==
    (shutdown_event /\ ThreadsJoined /\ mpc = "ended") => exitStatus = "exit 0"

\* C27: for nbl = nstand*(nstand+1)/2 both producers put that nstand in
\* the header, and DummyOp's header is the one seq_callback makes from the
\* same values: same fields, derived the same way
C27_NstandInverse ==
    ohdr # NoHdr
      => /\ \A n \in 1..MaxNstand : ohdr.nbl = Baselines(n) => ohdr.nstand = n
         /\ DOMAIN ohdr = DOMAIN CaptureHdr(NoArgs)
         /\ ohdr = CaptureHdr([producer |-> "CaptureOp", seq0 |-> ohdr.seq0,
                               time_tag |-> ohdr.time_tag,
                               chan0 |-> ohdr.chan0, nchan |-> ohdr.nchan,
                               navg |-> ohdr.navg, nsrc |-> hdrIn.nsrc,
                               fast |-> hdrIn.fast])

C27_Witness ==
    /\ hdrIn.producer = "DummyOp"
    /\ hdrIn.fast
    /\ ohdr.nbl = Baselines(MaxNstand)
    /\ ohdr.nstand = MaxNstand

\* C28: the writer never calls start or write on an op after the command
\* thread has cancelled or deleted it
C28_NoUseAfterCancel ==
    [][(GulpHandled /\ ev'.kind \in {"write", "start_raised"})
         => /\ ~cancelled[active_op]
            /\ active_op \in Range(queue)]_vars

\* C29: every consumer reads the ring with guarantee: a committed gulp is
\* there for every consumer, a consumer's unread spans change only by its
\* own read of the oldest one (a full gulp is then processed) or by the
\* producer's commit at the end, however far the consumer lags, and the
\* producer's reserve blocks while the ring is full of unread spans
C29_GuaranteedReads ==
    /\ [](Len(ring) <= RingCap /\ (Len(ring) = RingCap => ~ENABLED ProducerGulp))
    /\ [][/\ ProducerGulp => \A r \in readers : Unread(r)' = Unread(r) \o <<Gulp>>
          /\ \A r \in readers \cap readers' :
               \/ \E e \in {<<>>, <<Hdr>>, <<Gulp>>, <<Short>>} :
                    /\ Unread(r)' = Unread(r) \o e
                    /\ e # <<>> => ProducerThread
               \/ /\ Unread(r) # <<>>
                  /\ Unread(r)' = Tail(Unread(r))
                  /\ IF r = "WriterOp" THEN WriterThread ELSE StageThread(r)
                  /\ (r # "WriterOp" /\ Head(Unread(r)) = Gulp) => sev'[r] = "gulp"
          /\ \A r \in Monitors : StageSpan(r) => sev[r]' \in {"gulp", "skipped"}
          /\ \A sample \in 0..now :
               WriterPoll(sample) => Head(Unread("WriterOp")) = Gulp]_vars

\* a consumer lags a whole ring behind another one and the producer waits
C29_Witness ==
    /\ Len(ring) = RingCap
    /\ \A i \in 1..RingCap : ring[i] = Gulp
    /\ rpos["StatisticsOp"] = 0
    /\ rpos["SpectraOp"] = RingCap
    /\ wpc = "polled"
    /\ sev["SpectraOp"] = "gulp"
    /\ ~shutdown_event

\* C30: in StatisticsOp.main the first full gulp of a sequence writes the
\* monitor points, two writes within a sequence are more than 60 seconds of
\* wall time apart, and time_tag advances on every full gulp, emitting or not
C30_StatCadence ==
    [][ngulp'["StatisticsOp"] = ngulp["StatisticsOp"] + 1
         => /\ ngulp["StatisticsOp"] = 0 => statEv'.emitted
            /\ (statEv'.emitted /\ prevEmit # 0)
                 => /\ statEv'.at - prevEmit > SaveEvery
                    /\ statEv'.at - last_save > SaveEvery
            /\ tt'["StatisticsOp"]
                 = tt["StatisticsOp"] + navg * ntime_gulp]_vars

\* a later gulp of a sequence writes the monitor points again, after gulps
\* that did not
C30_Witness ==
    /\ statEv.kind = "gulp"
    /\ statEv.emitted
    /\ ngulp["StatisticsOp"] = MaxGulps
    /\ statEv.at > WallStart + SaveEvery
    /\ statEv.at < WallStart + 2 * SaveEvery
    /\ tt["StatisticsOp"] = ihdr["StatisticsOp"] + MaxGulps * navg * ntime_gulp

\* C31: in each sequence the writer calls QUEUE.update_lag once, on the
\* first full gulp, with the sample time of that gulp and before QUEUE.active
\* is evaluated for it; later gulps of the sequence leave the lag alone
C31_LagOncePerSequence ==
    [][/\ (wpc = "inseq" /\ wpc' = "polled")
            => /\ first_gulp => lag' = now - time_tag'
               /\ ~first_gulp => lag' = lag
               /\ ~first_gulp'
               /\ active_op' = ActiveAt(now - lag')
       /\ ~(wpc = "inseq" /\ wpc' = "polled")
            => /\ lag' = lag
               /\ first_gulp' = (first_gulp \/ ev'.kind = "beginseq")]_vars

\* a later gulp of a sequence is polled with the lag of the first one, which
\* is no longer the lag of the gulp at hand
C31_Witness ==
    /\ wpc = "polled"
    /\ ev.kind = "poll"
    /\ lag > 0
    /\ now - time_tag < lag
    /\ active_op # NoOp
    /\ writeCalled[active_op]

\* C32: the writer publishes latest_frequency at the start of every
\* sequence and a null latest_frequency at the end of every sequence, so
\* that a sequence that follows another one starts from a null value
C32_NullBetweenSequences ==
    [][ev'.kind = "beginseq" /\ ev' # ev
         => /\ latest_frequency' = "chan_to_freq(chan0)"
            /\ wpc = "inseq" => latest_frequency = "null"]_vars

\* C33: the auto-correlation index of stand i is the position of the pair
\* (i, i) among the pairs (i, j), i <= j, ordered by i then j; the indices
\* grow strictly and are smaller than nbl = nstand*(nstand+1)/2
C33_AutosOnDiagonal ==
    autos # <<>>
      => LET n == ohdr.nstand
         IN /\ Len(autos) = n
            /\ Len(PairsFrom(0, n)) = Baselines(n)
            /\ \A i \in 0..(n - 1) :
                 /\ autos[i + 1] >= 0
                 /\ autos[i + 1] < Baselines(n)
                 /\ PairsFrom(0, n)[autos[i + 1] + 1] = <<i, i>>
                 /\ i > 0 => autos[i] < autos[i + 1]

C33_Witness ==
    /\ Len(autos) = MaxNstand
    /\ autos[1] = 0
    /\ autos[MaxNstand] = Baselines(MaxNstand) - 1

\* C34: a product that _load_calibration returns (anything but the raise
\* that the caller turns into None) for data whose caltag is t was built
\* from the table under t in the table set loaded at that moment, whatever
\* calls came before
C34_ProductFromItsTable ==
    calResult.kind \in {"product", "zeros"}
      => /\ calResult.kind = "product"
         /\ calResult.key = Round(calResult.freq)
         /\ all_cals[calResult.key] # NoTable
         /\ all_cals[calResult.key].h = calResult.h
         /\ all_cals[calResult.key].gen = calResult.gen

\* C35: the writer calls stop on an op at most once, and only on an op it
\* has started before, whatever commands and sequences came before
C35_StopOnceOnStarted ==
    [][(was_active /\ ~was_active' /\ ev'.kind = "stop" /\ ev'.stop # NoOp)
         => /\ is_started[ev'.stop]
            /\ startCalled[ev'.stop]
            /\ ~stopCalled[ev'.stop]]_vars

\* C36: whenever the writer is between two gulps of a sequence,
\* write_error_asserted holds exactly when write_error_counter is positive
C36_AssertedIffCounted ==
    wpc \in {"inseq", "polled"}
      => (write_error_asserted <=> write_error_counter > 0)

\* a run of failed writes that has passed a re-assert, and is still asserted
C36_Witness ==
    /\ wpc = "inseq"
    /\ ev.kind = "write"
    /\ write_error_asserted
    /\ write_error_counter = ReassertEvery + 1

\* C37: the published nerror is 0 whenever write_error_asserted is false
\* and lies between 1 and write_error_counter whenever it is true, at every
\* gulp boundary, also in a sequence that begins after a failed write
C37_PublishedErrorCount ==
    wpc \in {"inseq", "polled"}
      => /\ ~write_error_asserted => nerror = 0
         /\ write_error_asserted
              => (1 <= nerror /\ nerror <= write_error_counter)

\* C38: for every text quota_size returns a non-negative whole number of
\* seconds or raises ValueError; a component whose number does not parse
\* counts as 0 and leads to no other exception
C38_QuotaTotal ==
    quotaOut.kind # "none"
      => /\ quotaOut.kind \in {"ok", "ValueError"}
         /\ quotaOut.kind = "ok" => quotaOut.seconds \in Nat

====
